---------------------------- MODULE Spec2Model ----------------------------
(***************************************************************************)
(* claude-code-sync: the `hook <event>` command of the CLI, its session    *)
(* ledger (session-state.json), the transcript scanner and the sync        *)
(* client.  One hook invocation is one short-lived process: it loads the   *)
(* ledger, runs the handler of the event and awaits each HTTP request.     *)
(*                                                                         *)
(* Conventions of the translation:                                         *)
(*   - a string field that is undefined or "" in JavaScript (both falsy)   *)
(*     is the empty string "";                                             *)
(*   - an optional number field that is undefined is Undef;                 *)
(*   - timestamps are natural numbers (milliseconds), 0 is "no timestamp"; *)
(*   - a cost is kept in units of 10^-8 dollars (rates are given in cents  *)
(*     per million tokens), so that the arithmetic stays in the integers.  *)
(***************************************************************************)
EXTENDS Integers, Sequences, FiniteSets, TLC

\* ------------------------------------------------------------------ bounds
\* Number of lines the host appends to the transcripts in one behaviour of Spec.
MaxLines == 2
\* Number of hook invocations in one behaviour of Spec.
MaxHooks == 3
\* Longest transcript (in lines) given to the scanner in SpecScan.
ScanMaxLines == 3

\* ----------------------------------------------------------------- domains
\* The session identifiers a ledger may hold.
Sessions == {"s1", "s2"}

\* The sessions the host runs in Spec.
Hosted == {"s1"}

\* An optional number that is undefined.
Undef == 0 - 1

NumOr0(x) == IF x = Undef THEN 0 ELSE x

\* ------------------------------------------------------- transcript lines
\* One line of the JSONL transcript.  json = "bad": JSON.parse throws;
\* "blank": the line is empty after trim; "null": the line is the JSON value
\* null, so that reading a property of the entry throws; "obj": an entry.
\* parts: the message's content array, each part [type, text]; a part of
\* type "null" is a null element, and reading its type throws.
NoUsage == [present |-> FALSE, input |-> 0, output |-> 0, cacheCreation |-> 0, cacheRead |-> 0]

Usage(i, o, cc, cr) ==
    [present |-> TRUE, input |-> i, output |-> o, cacheCreation |-> cc, cacheRead |-> cr]

NoMessage == [present |-> FALSE, model |-> "", parts |-> <<>>, usage |-> NoUsage]

Message(model, parts, usage) ==
    [present |-> TRUE, model |-> model, parts |-> parts, usage |-> usage]

Line(json, type, uuid, timestamp, cwd, slug, message) ==
    [json |-> json, type |-> type, uuid |-> uuid, timestamp |-> timestamp,
     cwd |-> cwd, slug |-> slug, message |-> message]

BadLine == Line("bad", "", "", 0, "", "", NoMessage)

BlankLine == Line("blank", "", "", 0, "", "", NoMessage)

NullLine == Line("null", "", "", 0, "", "", NoMessage)

TextPart(t) == [type |-> "text", text |-> t]

ToolUsePart == [type |-> "tool_use", text |-> ""]

\* A thinking part holds its trace in `thinking` and has no text.
ThinkingText == "trace"

ThinkingPart == [type |-> "thinking", text |-> "", thinking |-> ThinkingText]

NullPart == [type |-> "null", text |-> ""]

UserLine == Line("obj", "user", "m1", 1, "/w", "first-title", NoMessage)

AssistantU1 ==
    Line("obj", "assistant", "u1", 2, "", "",
         Message("claude-3-5-haiku-20241022", <<TextPart("a")>>, Usage(100, 50, 0, 0)))

\* The same identifier as AssistantU1 on a later line, with its own usage; its
\* first text part holds no text.
AssistantU1Again ==
    Line("obj", "assistant", "u1", 3, "/x", "second-title",
         Message("claude-opus-4", <<TextPart(""), TextPart("b")>>, Usage(10, 5, 3, 2)))

AssistantU2 ==
    Line("obj", "assistant", "u2", 4, "", "",
         Message("claude-opus-4", <<ThinkingPart, TextPart("c"), ToolUsePart, TextPart("d")>>,
                 Usage(1, 1, 1, 1)))

\* An assistant entry without uuid.
AssistantNoUuid ==
    Line("obj", "assistant", "", 0, "", "",
         Message("", <<TextPart("e")>>, Usage(0, 0, 0, 7)))

\* An assistant entry whose content array holds a null element.
AssistantNullPart ==
    Line("obj", "assistant", "u3", 5, "", "",
         Message("gpt-4", <<TextPart("f"), NullPart, TextPart("g")>>, Usage(2, 2, 2, 2)))

\* The lines the host writes to a session's transcript in Spec, in this order:
\* a transcript of Spec is a prefix of it.
HostScript == <<AssistantU1, AssistantNoUuid, AssistantU2, BadLine>>

\* The lines a transcript of SpecScan is made of.
ScanLines ==
    {BadLine, BlankLine, NullLine, UserLine, AssistantU1, AssistantU1Again,
     AssistantU2, AssistantNoUuid, AssistantNullPart}

IsMalformed(line) == line.json = "bad"

RECURSIVE RemoveMalformed(_)
RemoveMalformed(lines) ==
    IF lines = <<>> THEN <<>>
    ELSE IF IsMalformed(Head(lines)) THEN RemoveMalformed(Tail(lines))
         ELSE <<Head(lines)>> \o RemoveMalformed(Tail(lines))


\* ------------------------------------------------------ transcript scanner
\* The scanner's accumulator: result.stats, result.assistantMessages and the
\* locals seenUuids, firstTimestamp, lastTimestamp of parseTranscriptFile.
ScanInit ==
    [model |-> "", inputTokens |-> 0, cacheCreationTokens |-> 0, cacheReadTokens |-> 0,
     outputTokens |-> 0, messageCount |-> 0, toolCallCount |-> 0, title |-> "", cwd |-> "",
     assistantMessages |-> <<>>, seenUuids |-> {}, firstTimestamp |-> 0, lastTimestamp |-> 0]

\* The loop over msg.content: a text part with text is pushed, a tool_use part
\* is counted; a null element throws (threw = TRUE) and ends the entry there.
RECURSIVE ScanParts(_, _, _, _, _)
ScanParts(parts, acc, uuid, timestamp, model) ==
    IF parts = <<>> THEN [acc |-> acc, threw |-> FALSE]
    ELSE LET part == Head(parts)
             pushed == IF part.type = "text" /\ part.text # ""
                       THEN [acc EXCEPT !.assistantMessages =
                                 Append(@, [uuid |-> uuid, text |-> part.text,
                                            timestamp |-> timestamp, model |-> model])]
                       ELSE acc
             counted == IF part.type = "tool_use"
                        THEN [pushed EXCEPT !.toolCallCount = @ + 1]
                        ELSE pushed
         IN  IF part.type = "null" THEN [acc |-> acc, threw |-> TRUE]
             ELSE ScanParts(Tail(parts), counted, uuid, timestamp, model)

\* An assistant branch without the check of seenUuids: every entry is read.
ScanAssistantAll(acc, line, now) ==
    LET msg == line.message
        res == ScanParts(msg.parts, acc, line.uuid,
                         IF line.timestamp # 0 THEN line.timestamp ELSE now, msg.model)
        a == res.acc
    IN  IF res.threw \/ ~msg.usage.present THEN a
        ELSE [a EXCEPT !.inputTokens = @ + msg.usage.input,
                       !.cacheCreationTokens = @ + msg.usage.cacheCreation,
                       !.cacheReadTokens = @ + msg.usage.cacheRead,
                       !.outputTokens = @ + msg.usage.output]

\* The assistant branch of the loop body, after the model was taken.
ScanAssistant(acc, line, now) ==
    LET msg == line.message
        uuid == line.uuid
    IN  IF uuid # "" /\ uuid \in acc.seenUuids THEN acc
        ELSE LET seen == IF uuid # "" THEN [acc EXCEPT !.seenUuids = @ \cup {uuid}] ELSE acc
                 res == ScanParts(msg.parts, seen, uuid,
                                  IF line.timestamp # 0 THEN line.timestamp ELSE now,
                                  msg.model)
                 a == res.acc
             IN  IF res.threw \/ ~msg.usage.present THEN a
                 ELSE [a EXCEPT !.inputTokens = @ + msg.usage.input,
                                !.cacheCreationTokens = @ + msg.usage.cacheCreation,
                                !.cacheReadTokens = @ + msg.usage.cacheRead,
                                !.outputTokens = @ + msg.usage.output]

\* A body in which cwd, title and model are assigned without the test that
\* they are still unset: each takes the last value of the scan.
ScanEntryLastValue(acc, line, now) ==
    LET a1 == IF line.timestamp # 0
              THEN [acc EXCEPT !.firstTimestamp = IF @ = 0 THEN line.timestamp ELSE @,
                               !.lastTimestamp = line.timestamp]
              ELSE acc
        a2 == IF line.cwd # "" THEN [a1 EXCEPT !.cwd = line.cwd] ELSE a1
        a3 == IF line.slug # "" THEN [a2 EXCEPT !.title = line.slug] ELSE a2
        a4 == IF line.type = "user" THEN [a3 EXCEPT !.messageCount = @ + 1] ELSE a3
        a5 == IF line.message.model # "" THEN [a4 EXCEPT !.model = line.message.model] ELSE a4
    IN  IF line.type = "assistant" /\ line.message.present
        THEN ScanAssistant(a5, line, now)
        ELSE a4

\* The body of the inner try for a line that JSON.parse accepts as an entry.
ScanEntry(acc, line, now) ==
    LET a1 == IF line.timestamp # 0
              THEN [acc EXCEPT !.firstTimestamp = IF @ = 0 THEN line.timestamp ELSE @,
                               !.lastTimestamp = line.timestamp]
              ELSE acc
        a2 == IF a1.cwd = "" /\ line.cwd # "" THEN [a1 EXCEPT !.cwd = line.cwd] ELSE a1
        a3 == IF a2.title = "" /\ line.slug # "" THEN [a2 EXCEPT !.title = line.slug] ELSE a2
        a4 == IF line.type = "user" THEN [a3 EXCEPT !.messageCount = @ + 1] ELSE a3
        a5 == IF line.message.model # "" /\ a4.model = ""
              THEN [a4 EXCEPT !.model = line.message.model] ELSE a4
    IN  IF line.type = "assistant" /\ line.message.present
        THEN ScanAssistant(a5, line, now)
        ELSE a4

\* A loop body without the inner try: a line JSON.parse rejects ends the scan
\* in the outer catch, and what was read so far is lost.
ScanLineAborting(acc, line, now) ==
    IF line.json = "bad" THEN ScanInit
    ELSE IF line.json # "obj" THEN acc
    ELSE ScanEntry(acc, line, now)

\* One iteration of the loop over the lines: a blank line is passed over, and
\* a line that throws in JSON.parse, or on reading a property of null, is
\* skipped by the inner catch.
ScanLine(acc, line, now) ==
    IF line.json # "obj" THEN acc ELSE ScanEntry(acc, line, now)

RECURSIVE ScanLoop(_, _, _)
ScanLoop(acc, lines, now) ==
    IF lines = <<>> THEN acc ELSE ScanLoop(ScanLine(acc, Head(lines), now), Tail(lines), now)

\* The value parseTranscriptFile returns for a finished loop.
ScanResult(acc) ==
    [assistantMessages |-> acc.assistantMessages,
     stats |-> [model |-> acc.model, inputTokens |-> acc.inputTokens,
                cacheCreationTokens |-> acc.cacheCreationTokens,
                cacheReadTokens |-> acc.cacheReadTokens,
                outputTokens |-> acc.outputTokens, messageCount |-> acc.messageCount,
                toolCallCount |-> acc.toolCallCount, title |-> acc.title, cwd |-> acc.cwd,
                startedAt |-> acc.firstTimestamp, endedAt |-> acc.lastTimestamp,
                durationMs |-> IF acc.firstTimestamp # 0 /\ acc.lastTimestamp # 0
                               THEN acc.lastTimestamp - acc.firstTimestamp ELSE Undef]]

parseTranscriptFile(lines, now) == ScanResult(ScanLoop(ScanInit, lines, now))

\* ---------------------------------------------------------- cost estimator
\* The spelling of a model name, for String.prototype.includes.
Spell(s) ==
    IF s = "claude-sonnet-4-20250514" THEN
        <<"c", "l", "a", "u", "d", "e", "-", "s", "o", "n", "n", "e", "t", "-", "4", "-", "2", "0", "2", "5", "0", "5", "1", "4">> ELSE
    IF s = "claude-opus-4-20250514" THEN
        <<"c", "l", "a", "u", "d", "e", "-", "o", "p", "u", "s", "-", "4", "-", "2", "0", "2", "5", "0", "5", "1", "4">> ELSE
    IF s = "claude-opus-4-5-20251101" THEN
        <<"c", "l", "a", "u", "d", "e", "-", "o", "p", "u", "s", "-", "4", "-", "5", "-", "2", "0", "2", "5", "1", "1", "0", "1">> ELSE
    IF s = "claude-3-5-sonnet-20241022" THEN
        <<"c", "l", "a", "u", "d", "e", "-", "3", "-", "5", "-", "s", "o", "n", "n", "e", "t", "-", "2", "0", "2", "4", "1", "0", "2", "2">> ELSE
    IF s = "claude-3-opus-20240229" THEN
        <<"c", "l", "a", "u", "d", "e", "-", "3", "-", "o", "p", "u", "s", "-", "2", "0", "2", "4", "0", "2", "2", "9">> ELSE
    IF s = "claude-3-5-haiku-20241022" THEN
        <<"c", "l", "a", "u", "d", "e", "-", "3", "-", "5", "-", "h", "a", "i", "k", "u", "-", "2", "0", "2", "4", "1", "0", "2", "2">> ELSE
    IF s = "claude-opus-4" THEN
        <<"c", "l", "a", "u", "d", "e", "-", "o", "p", "u", "s", "-", "4">> ELSE
    IF s = "gpt-4" THEN
        <<"g", "p", "t", "-", "4">> ELSE
    IF s = "haiku" THEN
        <<"h", "a", "i", "k", "u">> ELSE
    IF s = "claude-3" THEN
        <<"c", "l", "a", "u", "d", "e", "-", "3">> ELSE
    IF s = "constructor" THEN
        <<"c", "o", "n", "s", "t", "r", "u", "c", "t", "o", "r">> ELSE
        <<>>

\* a.includes(b): b is a contiguous part of a.
Includes(a, b) ==
    \E i \in 0..(Len(a) - Len(b)) : \A j \in 1..Len(b) : a[i + j] = b[j]

\* MODEL_PRICING in key order; rates in cents per million tokens.
MODEL_PRICING ==
    << [key |-> "claude-sonnet-4-20250514", input |-> 300, output |-> 1500, cacheWrite |-> 375, cacheRead |-> 30],
       [key |-> "claude-opus-4-20250514", input |-> 1500, output |-> 7500, cacheWrite |-> 1875, cacheRead |-> 150],
       [key |-> "claude-opus-4-5-20251101", input |-> 1500, output |-> 7500, cacheWrite |-> 1875, cacheRead |-> 150],
       [key |-> "claude-3-5-sonnet-20241022", input |-> 300, output |-> 1500, cacheWrite |-> 375, cacheRead |-> 30],
       [key |-> "claude-3-opus-20240229", input |-> 1500, output |-> 7500, cacheWrite |-> 1875, cacheRead |-> 150],
       [key |-> "claude-3-5-haiku-20241022", input |-> 80, output |-> 400, cacheWrite |-> 100, cacheRead |-> 8] >>

\* A lookup that falls back on the first key of the table when no key is
\* equal to the model, contains it or is contained in it.
MatchingKeysOrFirst(model) ==
    LET near == {i \in 1..Len(MODEL_PRICING) :
                    \/ Includes(Spell(model), Spell(MODEL_PRICING[i].key))
                    \/ Includes(Spell(MODEL_PRICING[i].key), Spell(model))}
    IN  IF near # {} THEN near ELSE {1}

\* The indexes of the keys calculateCost accepts for a model: the key equal to
\* it, else the keys that contain it or are contained in it.
MatchingKeys(model) ==
    LET exact == {i \in 1..Len(MODEL_PRICING) : MODEL_PRICING[i].key = model}
    IN  IF exact # {} THEN exact
        ELSE {i \in 1..Len(MODEL_PRICING) :
                 \/ Includes(Spell(model), Spell(MODEL_PRICING[i].key))
                 \/ Includes(Spell(MODEL_PRICING[i].key), Spell(model))}

\* The number NaN.
NaN == 0 - 2

\* Property names MODEL_PRICING, an object literal, inherits from
\* Object.prototype: MODEL_PRICING[name] is a function, which is truthy and
\* has no input, output, cacheWrite or cacheRead.
InheritedNames == {"constructor"}

\* The token counts of a result of parseTranscriptFile that read nothing.
NoStats == [inputTokens |-> 0, cacheCreationTokens |-> 0, cacheReadTokens |-> 0,
            outputTokens |-> 0]

\* The last of the keys accepted for a model, where the code takes the first.
FindLastKey(model) ==
    CHOOSE k \in MatchingKeys(model) : \A m \in MatchingKeys(model) : k >= m

\* The key whose prices are used: the key equal to the model, else what
\* Object.keys(MODEL_PRICING).find returns, the first key in table order.
FindKey(model) ==
    CHOOSE k \in MatchingKeys(model) : \A m \in MatchingKeys(model) : k <= m

\* The sum of the input and output costs alone, as the plugin computes it.
calculateCostNoCache(model, stats) ==
    IF model = "" THEN 0
    ELSE IF model \in InheritedNames THEN NaN
    ELSE IF MatchingKeys(model) = {} THEN 0
    ELSE LET pricing == MODEL_PRICING[FindKey(model)]
         IN  stats.inputTokens * pricing.input + stats.outputTokens * pricing.output

\* calculateCost(model, stats), in units of 10^-8 dollars.
calculateCost(model, stats) ==
    IF model = "" THEN 0
    ELSE IF model \in InheritedNames THEN NaN
    ELSE IF MatchingKeys(model) = {} THEN 0
    ELSE LET pricing == MODEL_PRICING[FindKey(model)]
         IN  stats.inputTokens * pricing.input
             + stats.cacheCreationTokens * pricing.cacheWrite
             + stats.cacheReadTokens * pricing.cacheRead
             + stats.outputTokens * pricing.output


\* ---------------------------------------------------------- session ledger
\* syncedMessageUuids of an entry: tag "Set" with the elements in insertion
\* order (in memory), tag "Array" (in the file), or tag "undefined".
NoUuids == [tag |-> "undefined", elems |-> <<>>]

NoTokenUsage == [present |-> FALSE, input |-> 0, output |-> 0]

\* The entry `{}`: every field of SessionState[sessionId] undefined.
EmptyEntry ==
    [model |-> "", firstPrompt |-> "", tokenUsage |-> NoTokenUsage,
     cacheCreationTokens |-> Undef, cacheReadTokens |-> Undef,
     messageCount |-> Undef, toolCallCount |-> Undef,
     syncedMessageUuids |-> NoUuids, startedAt |-> 0, endedAt |-> 0,
     durationMs |-> Undef, title |-> "", cwd |-> "", costEstimate |-> Undef]

\* The empty ledger `{}`.
EmptyLedger == [s \in {} |-> EmptyEntry]

\* What the client's sessionCache holds for a session it has no entry for:
\* getSessionState returns {}.
NoCacheEntry ==
    [present |-> FALSE, model |-> "", title |-> "", cwd |-> "",
     tokenUsage |-> NoTokenUsage, startedAt |-> 0]

\* The hook processes the host runs side by side, and their session.
Procs == {1, 2}

RaceSession == "s1"

\* No interactive command runs.
NoCmd == [pc |-> "none"]

\* A process that has not started: what it holds in memory (mem, cur, queue),
\* and, as history, the ledger as it loaded it (base), the number of times it
\* has incremented the message count (incs) and saved the ledger (writes).
NoProc ==
    [pc |-> "idle", event |-> "none", prompt |-> "", mem |-> EmptyLedger, cur |-> EmptyEntry,
     queue |-> <<>>, base |-> EmptyLedger, incs |-> 0, writes |-> 0]

MissingFile == [kind |-> "missing", data |-> EmptyLedger]

\* A ledger file whose content JSON.parse rejects.
CorruptFile == [kind |-> "corrupt", data |-> EmptyLedger]

Elems(seq) == {seq[i] : i \in 1..Len(seq)}

\* new Set(array): the distinct elements, each at its first place.
RECURSIVE SetFromArray(_)
SetFromArray(arr) ==
    IF arr = <<>> THEN <<>>
    ELSE LET init == SetFromArray(SubSeq(arr, 1, Len(arr) - 1))
             last == arr[Len(arr)]
         IN  IF last \in Elems(init) THEN init ELSE Append(init, last)

\* The conversion loadSessionState applies to each entry it read.
ReviveEntry(e) ==
    [e EXCEPT !.syncedMessageUuids =
        IF @.tag = "Array" THEN [tag |-> "Set", elems |-> SetFromArray(@.elems)] ELSE @]

\* A conversion that hands the Set to JSON.stringify, which writes it as {}.
SerializeEntryRaw(e) ==
    [e EXCEPT !.syncedMessageUuids =
        IF @.tag = "Set" THEN [tag |-> "Object", elems |-> <<>>] ELSE @]

\* The conversion saveSessionState applies to each entry it writes.
SerializeEntry(e) ==
    [e EXCEPT !.syncedMessageUuids =
        IF @.tag = "Set" THEN [tag |-> "Array", elems |-> @.elems] ELSE @]

\* A loadSessionState without the try: the error of JSON.parse on a corrupt
\* file reaches the caller.
loadSessionStateUnguarded(f) ==
    IF f.kind = "json"
    THEN [threw |-> FALSE, state |-> [s \in DOMAIN f.data |-> ReviveEntry(f.data[s])]]
    ELSE [threw |-> f.kind = "corrupt", state |-> EmptyLedger]

\* loadSessionState(): threw tells whether an error reaches the caller.
loadSessionState(f) ==
    IF f.kind = "json"
    THEN [threw |-> FALSE, state |-> [s \in DOMAIN f.data |-> ReviveEntry(f.data[s])]]
    ELSE [threw |-> FALSE, state |-> EmptyLedger]

\* saveSessionState(state): the file it leaves.
saveSessionState(state) ==
    [kind |-> "json", data |-> [s \in DOMAIN state |-> SerializeEntry(state[s])]]

\* sessionState[sid] || {}
GetEntry(state, sid) == IF sid \in DOMAIN state THEN state[sid] ELSE EmptyEntry

\* A ledger rebuilt from the one entry the handler works on.
PutEntryAlone(state, sid, entry) == [s \in {sid} |-> entry]

\* sessionState[sid] = entry
PutEntry(state, sid, entry) ==
    [s \in DOMAIN state \cup {sid} |-> IF s = sid THEN entry ELSE state[s]]

\* delete sessionState[sid]
DeleteEntry(state, sid) == [s \in DOMAIN state \ {sid} |-> state[s]]

\* The identifiers a ledger file holds as synced for a session.
SyncedIn(f, sid) ==
    IF f.kind = "json" /\ sid \in DOMAIN f.data
    THEN Elems(f.data[sid].syncedMessageUuids.elems) ELSE {}

\* generateTitle(prompt) on the prompts of the model: each is at most 80
\* characters long and has no blank at either end, so it is returned as it is.
Prompts == {"fix the bug", "add tests"}

generateTitle(prompt) ==
    IF prompt = "fix the bug" THEN "fix the bug"
    ELSE IF prompt = "add tests" THEN "add tests"
    ELSE ""

\* ------------------------------------------------------------ configuration
\* What loadConfig() returns: null, or a Config with its optional flags
\* ("absent" when the stored configuration does not hold the option).
NoConfig == [present |-> FALSE, autoSync |-> "absent", syncToolCalls |-> "absent"]

Configs ==
    {NoConfig,
     [present |-> TRUE, autoSync |-> "false", syncToolCalls |-> "true"],
     [present |-> TRUE, autoSync |-> "true", syncToolCalls |-> "true"],
     [present |-> TRUE, autoSync |-> "true", syncToolCalls |-> "false"],
     [present |-> TRUE, autoSync |-> "absent", syncToolCalls |-> "absent"]}

\* What the status command reports as "Tool Calls" for a configuration:
\* enabled unless syncToolCalls is false.
ToolCallsEnabled(c) == c.syncToolCalls # "false"

\* ------------------------------------------------------------------- state
VARIABLES
    config,       \* the stored configuration
    file,         \* the ledger file session-state.json
    transcripts,  \* each session's transcript file, a sequence of lines
    pc,           \* where the hook process is: idle, an await, exited
    hook,         \* the invocation: event, session, input, ...
    mem,          \* sessionState, the ledger loaded by the process
    cur,          \* state, the entry the handler works on
    queue,        \* Stop: the assistant messages the loop has not visited
    req,          \* the HTTP request in flight
    exitCode,     \* the exit status of the last process
    stderr,       \* whether the last process wrote to standard error
    attempted,    \* history: the message requests issued
    delivered,    \* history: the message requests answered with success
    recorded,     \* history: <<session, uuid>> once held as synced by the file
    lastStop,     \* history: the transcript of each session's last Stop that saved
    ended,        \* history: the sessions whose entry a SessionEnd removed
    reported,     \* history: the first model and title the session records reported
    nHooks,       \* number of invocations so far
    scanLines,    \* SpecScan: the transcript under scan
    scanPos,      \* SpecScan: the next line of the loop
    scanAcc,      \* SpecScan: the scanner's accumulator
    costModel,    \* SpecCost: the model name given to calculateCost
    costStats,    \* SpecCost: the token counts given to calculateCost
    costResult,   \* SpecCost: the value calculateCost returned
    messageCounter,   \* SpecPlugin: the plugin's count of messages
    toolCallCounter,  \* SpecPlugin: the plugin's count of tool calls
    sessionCache,     \* SpecPlugin: the client's sessionCache
    ending,           \* SpecPlugin: the sessions whose SessionEnd awaits its reply
    procs,            \* SpecRace: the hook processes that run side by side
    cmd               \* SpecLogin, SpecSetup: the interactive command and its files

vars == <<config, file, transcripts, pc, hook, mem, cur, queue, req, exitCode,
          stderr, attempted, delivered, recorded, lastStop, ended, reported, nHooks,
          scanLines, scanPos, scanAcc, costModel, costStats, costResult,
          messageCounter, toolCallCounter, sessionCache, ending, procs, cmd>>

scanVars == <<scanLines, scanPos, scanAcc>>

costVars == <<costModel, costStats, costResult>>

pluginVars == <<messageCounter, toolCallCounter, sessionCache, ending>>

\* The state a single hook process does not have: that of the specifications
\* of single functions, of the plugin, and of processes side by side.
pureVars == <<scanVars, costVars, pluginVars, procs, cmd>>

envVars == <<config, transcripts>>

histVars == <<attempted, delivered, recorded, lastStop, ended, reported>>

NoReq == [endpoint |-> "none"]

NoHook == [event |-> "none", sid |-> "", input |-> "none", prompt |-> "", tp |-> "none",
           loaded |-> "none", unchanged |-> FALSE, failed |-> FALSE,
           reads |-> 0, writes |-> 0, cost |-> Undef, issued |-> 0, answered |-> 0,
           repeat |-> FALSE]

Awaits == {"await_start", "await_end", "await_title", "await_prompt", "await_tool",
           "await_stopmsg", "await_stopsession"}

\* The history of a session of which no record has reported a model or title.
NoReport == [model |-> "", title |-> "", titled |-> FALSE]

\* The history of a session of which no Stop has saved the ledger.
NeverScanned == <<Line("never", "", "", 0, "", "", NoMessage)>>

Init ==
    /\ config \in Configs
    /\ file \in {MissingFile, CorruptFile}
    /\ transcripts = [s \in Sessions |-> <<>>]
    /\ pc = "idle"
    /\ hook = NoHook
    /\ mem = EmptyLedger
    /\ cur = EmptyEntry
    /\ queue = <<>>
    /\ req = NoReq
    /\ exitCode = 0
    /\ stderr = FALSE
    /\ attempted = {}
    /\ delivered = {}
    /\ recorded = {}
    /\ lastStop = [s \in Sessions |-> NeverScanned]
    /\ reported = [s \in Sessions |-> NoReport]
    /\ ended = {}
    /\ nHooks = 0
    /\ scanLines = <<>>
    /\ scanPos = 1
    /\ scanAcc = ScanInit
    /\ costModel = ""
    /\ costStats = NoStats
    /\ costResult = Undef
    /\ messageCounter = 0
    /\ toolCallCounter = 0
    /\ sessionCache = [s \in Sessions |-> NoCacheEntry]
    /\ ending = {}
    /\ procs = [p \in Procs |-> NoProc]
    /\ cmd = NoCmd


\* ------------------------------------------------------------ hook process
Events == {"SessionStart", "SessionEnd", "UserPromptSubmit", "PostToolUse", "Stop"}

\* An event name the switch does not know.
UnknownEvent == "Notification"

\* A test of the configuration that passes whenever one is stored, whatever
\* its autoSync.
ConfigPresent == config.present

\* config is set and autoSync is not false: the hook goes on to read stdin.
ConfigOn == config.present /\ config.autoSync # "false"

\* Date.now() and new Date() in a process that is starting: the clock advances
\* from one invocation to the next, and an invocation is over within one tick.
StartTime == nHooks + 1

\* Date.now() and new Date() in the running process.
RunTime == nHooks

\* A new process may start: none is running, and the run is within its bound.
CanStart == pc \notin Awaits /\ nHooks < MaxHooks

\* The status the hook action exits with when nothing was thrown.
NormalExitCode == 0

\* A status that tells the host of a failure.
ExitFailure == NormalExitCode + 1

\* The status the catch block of the hook action exits with.
CatchExitCode == 0

\* A message identifier: a uuid or tool_use_id of the input (kind "given"),
\* or `${session}-${kind}-${Date.now()}`.
GivenId(v) == [kind |-> "given", v |-> v, t |-> 0]

TimeId(kind, sid, t) == [kind |-> kind, v |-> sid, t |-> t]

\* SyncClient.transformMessage: the parts of the payload.  A message with a
\* tool name gets a tool-call part with the arguments and a tool-result part
\* with the result, each as the message holds it.
transformMessage(toolName, toolArgs, toolResult) ==
    IF toolName # ""
    THEN << [type |-> "tool-call", name |-> toolName, content |-> toolArgs],
            [type |-> "tool-result", name |-> "", content |-> toolResult] >>
    ELSE <<>>

MessageReq(sid, id, role, content, toolName) ==
    [endpoint |-> "/sync/message", sid |-> sid, id |-> id, role |-> role,
     content |-> content, toolName |-> toolName, parts |-> <<>>]

SessionReq(sid, model, title, cwd, tokenUsage, messageCount, toolCallCount, costEstimate, startedAt, endedAt) ==
    [endpoint |-> "/sync/session", sid |-> sid, model |-> model, title |-> title, cwd |-> cwd,
     tokenUsage |-> tokenUsage, messageCount |-> messageCount,
     toolCallCount |-> toolCallCount, costEstimate |-> costEstimate,
     startedAt |-> startedAt, endedAt |-> endedAt]

\* History of message request r: the earlier transmissions of the same record
\* (this content and tool name in this role for this session) in a log.
Earlier(log, r) ==
    {x \in log : x.sid = r.sid /\ x.role = r.role /\ x.content = r.content
                 /\ x.toolName = r.toolName}

\* The entry of the history for the n-th transmission of r.
Transmission(r, n) ==
    [sid |-> r.sid, id |-> r.id, role |-> r.role, content |-> r.content,
     toolName |-> r.toolName, nth |-> n]

\* The history after message request r was issued.
Attempt(r) == attempted \cup {Transmission(r, 1 + Cardinality(Earlier(attempted, r)))}

\* The history after message request r, the last one issued, succeeded.
Deliver(r) == delivered \cup {Transmission(r, Cardinality(Earlier(attempted, r)))}

\* History after a SessionStart, Stop or SessionEnd issued session record r:
\* the first model and the first title reported for the session are kept.
Report(r) ==
    [reported EXCEPT ![r.sid] =
        [model |-> IF @.model = "" THEN r.model ELSE @.model,
         title |-> IF @.title = "" THEN r.title ELSE @.title,
         titled |-> @.titled]]

\* History after UserPromptSubmit issued the title record of session sid:
\* titled tells that one was issued since the session's last SessionEnd.
Titled(sid) == [reported EXCEPT ![sid].titled = TRUE]

\* History after a SessionEnd of the session issued its record r.
ReportEnd(r) == [Report(r) EXCEPT ![r.sid].titled = FALSE]

\* History: the identifiers file f holds as synced, added to the recorded ones.
Recorded(f) == recorded \cup UNION {{<<s, u>> : u \in SyncedIn(f, s)} : s \in Sessions}

\* process.exit(code): the process is gone, with all it held in memory; of the
\* invocation h its event, session, kind of stdin and of ledger file, and
\* whether a request of it failed, are kept.
Exit(code, err, h) ==
    /\ pc' = "exited"
    /\ exitCode' = code
    /\ stderr' = err
    /\ hook' = [NoHook EXCEPT !.event = h.event, !.sid = h.sid, !.input = h.input,
                               !.loaded = h.loaded, !.failed = h.failed,
                               !.reads = h.reads, !.writes = h.writes,
                               !.issued = h.issued, !.answered = h.answered,
                               !.tp = h.tp]
    /\ req' = NoReq
    /\ mem' = EmptyLedger
    /\ cur' = EmptyEntry
    /\ queue' = <<>>

\* The catch block: the error is logged to standard error.
Catch(h) == Exit(CatchExitCode, TRUE, h)

NewHook(event, sid, input) ==
    [event |-> event, sid |-> sid, input |-> input, prompt |-> "", tp |-> "none",
     loaded |-> "none", unchanged |-> FALSE, failed |-> FALSE, reads |-> 0, writes |-> 0,
     cost |-> Undef, issued |-> 0, answered |-> 0, repeat |-> FALSE]

\* The invocation after a call of saveSessionState.
Saved(h) == [h EXCEPT !.writes = @ + 1]

\* The invocation after it has issued a request, and after the request it
\* awaits has completed, with success or with failure.
Issued(h) == [h EXCEPT !.issued = @ + 1]

Answered(h) == [h EXCEPT !.answered = @ + 1]

\* `if (!config) process.exit(0)`.
HookNotConfigured(event) ==
    /\ CanStart
    /\ ~config.present
    /\ nHooks' = nHooks + 1
    /\ Exit(0, FALSE, NewHook(event, "", "none"))
    /\ UNCHANGED <<file, envVars, histVars, pureVars>>

\* `if (config.autoSync === false) process.exit(0)`.
HookAutoSyncOff(event) ==
    /\ CanStart
    /\ config.present /\ config.autoSync = "false"
    /\ nHooks' = nHooks + 1
    /\ Exit(0, FALSE, NewHook(event, "", "none"))
    /\ UNCHANGED <<file, envVars, histVars, pureVars>>

\* `if (!input.trim()) process.exit(0)`.
HookEmptyStdin(event) ==
    /\ CanStart
    /\ ConfigOn
    /\ nHooks' = nHooks + 1
    /\ Exit(0, FALSE, NewHook(event, "", "empty"))
    /\ UNCHANGED <<file, envVars, histVars, pureVars>>

\* stdin is not JSON: JSON.parse(input) throws in the case of the event, after
\* the ledger was loaded; PostToolUse leaves before it parses when tool calls
\* are not synced.
HookInvalidJson(event) ==
    /\ CanStart
    /\ ConfigOn
    /\ nHooks' = nHooks + 1
    /\ LET h == [NewHook(event, "", "garbage") EXCEPT !.loaded = file.kind, !.reads = @ + 1]
       IN  IF loadSessionState(file).threw THEN Catch(h)
           ELSE IF event = "PostToolUse" /\ config.syncToolCalls # "true"
                THEN Exit(NormalExitCode, FALSE, h)
                ELSE Catch(h)
    /\ UNCHANGED <<file, envVars, histVars, pureVars>>

\* `default: break`.
HookUnknownEvent(sid) ==
    /\ CanStart
    /\ ConfigOn
    /\ nHooks' = nHooks + 1
    /\ LET h == [NewHook(UnknownEvent, sid, "json") EXCEPT !.loaded = file.kind, !.reads = @ + 1]
       IN  IF loadSessionState(file).threw THEN Catch(h)
           ELSE Exit(NormalExitCode, FALSE, h)
    /\ UNCHANGED <<file, envVars, histVars, pureVars>>


\* data.cwd of the SessionStart and SessionEnd events.
DataCwd == "/d"

\* The stats a handler reads from the transcript at transcript_path: "file" is
\* the session's transcript, "missing" a path at which no file exists.
TranscriptAt(sid, tp) == IF tp = "file" THEN transcripts[sid] ELSE <<>>

\* case "SessionStart", up to `await client.syncSession(session)`.
HookSessionStart(sid, tp, dataModel) ==
    /\ CanStart
    /\ ConfigOn
    /\ nHooks' = nHooks + 1
    /\ LET ld == loadSessionState(file)
           h == [NewHook("SessionStart", sid, "json") EXCEPT !.loaded = file.kind, !.reads = @ + 1]
           stats == parseTranscriptFile(TranscriptAt(sid, tp), StartTime).stats
           cwd == IF stats.cwd # "" THEN stats.cwd ELSE DataCwd
           model == IF stats.model # "" THEN stats.model ELSE dataModel
           zero == [present |-> TRUE, input |-> 0, output |-> 0]
           entry == [EmptyEntry EXCEPT !.model = model, !.tokenUsage = zero,
                                       !.cacheCreationTokens = 0, !.cacheReadTokens = 0,
                                       !.messageCount = 0, !.toolCallCount = 0,
                                       !.startedAt = StartTime, !.title = stats.title,
                                       !.cwd = cwd]
           state == PutEntry(ld.state, sid, entry)
       IN  IF ld.threw
           THEN Catch(h) /\ UNCHANGED <<file, recorded, reported>>
           ELSE /\ mem' = state
                /\ cur' = entry
                /\ file' = saveSessionState(state)
                /\ recorded' = Recorded(file')
                /\ req' = SessionReq(sid, model, stats.title, cwd, NoTokenUsage, Undef,
                                     Undef, Undef, StartTime, 0)
                /\ reported' = Report(req')
                /\ pc' = "await_start"
                /\ hook' = Issued(Saved(h))
                /\ UNCHANGED <<queue, exitCode, stderr>>
    /\ UNCHANGED <<envVars, attempted, delivered, lastStop, ended, pureVars>>

\* The stats case "SessionEnd" builds from the entry of the ledger.
StatsOfEntry(state) ==
    [model |-> state.model, inputTokens |-> state.tokenUsage.input,
     cacheCreationTokens |-> NumOr0(state.cacheCreationTokens),
     cacheReadTokens |-> NumOr0(state.cacheReadTokens),
     outputTokens |-> state.tokenUsage.output,
     messageCount |-> NumOr0(state.messageCount),
     toolCallCount |-> NumOr0(state.toolCallCount), title |-> state.title,
     cwd |-> IF state.cwd # "" THEN state.cwd ELSE DataCwd,
     startedAt |-> state.startedAt, endedAt |-> state.endedAt,
     durationMs |-> state.durationMs]

\* A cost that is estimated only when the event supplies none.
EndCostUnlessSupplied(supplied, stats) ==
    IF supplied = Undef /\ stats.model # ""
       /\ (stats.inputTokens # 0 \/ stats.outputTokens # 0
           \/ stats.cacheReadTokens # 0 \/ stats.cacheCreationTokens # 0)
    THEN calculateCost(stats.model, stats) ELSE supplied

\* The cost of the final record: data.cost_estimate, or the estimate when
\* that is undefined, null or 0 and the stats have a model and tokens.
EndCost(supplied, stats) ==
    IF NumOr0(supplied) = 0 /\ stats.model # ""
       /\ (stats.inputTokens # 0 \/ stats.outputTokens # 0
           \/ stats.cacheReadTokens # 0 \/ stats.cacheCreationTokens # 0)
    THEN calculateCost(stats.model, stats) ELSE supplied

\* case "SessionEnd", up to `await client.syncSession(session)`.
HookSessionEnd(sid, tp, data) ==
    /\ CanStart
    /\ ConfigOn
    /\ nHooks' = nHooks + 1
    /\ LET ld == loadSessionState(file)
           h == [NewHook("SessionEnd", sid, "json") EXCEPT
                    !.loaded = file.kind, !.reads = @ + 1, !.tp = tp,
                    !.cost = data.cost_estimate]
           state == GetEntry(ld.state, sid)
           stats == IF tp = "file"
                    THEN parseTranscriptFile(transcripts[sid], StartTime).stats
                    ELSE StatsOfEntry(state)
           cost == EndCost(data.cost_estimate, stats)
           cwd == IF stats.cwd # "" THEN stats.cwd ELSE DataCwd
           totalInputTokens ==
               stats.inputTokens + stats.cacheCreationTokens + stats.cacheReadTokens
           title == IF stats.title # "" THEN stats.title
                    ELSE IF state.firstPrompt # "" THEN generateTitle(state.firstPrompt)
                    ELSE ""
       IN  IF ld.threw
           THEN Catch(h) /\ UNCHANGED reported
           ELSE /\ mem' = ld.state
                /\ cur' = state
                /\ req' = SessionReq(sid, stats.model, title, cwd,
                                     [present |-> TRUE, input |-> totalInputTokens,
                                      output |-> stats.outputTokens],
                                     IF NumOr0(data.message_count) # 0
                                     THEN data.message_count ELSE stats.messageCount,
                                     IF NumOr0(data.tool_call_count) # 0
                                     THEN data.tool_call_count ELSE stats.toolCallCount,
                                     cost, stats.startedAt,
                                     IF stats.endedAt # 0 THEN stats.endedAt ELSE StartTime)
                /\ reported' = ReportEnd(req')
                /\ pc' = "await_end"
                /\ hook' = Issued(h)
                /\ UNCHANGED <<queue, exitCode, stderr>>
    /\ UNCHANGED <<file, envVars, attempted, delivered, recorded, lastStop, ended, pureVars>>

\* The user message of UserPromptSubmit and the request that carries it.
PromptMessageReq(sid, prompt, t) ==
    MessageReq(sid, TimeId("user", sid, t), "user", prompt, "")

\* case "UserPromptSubmit", up to its first await: the title record when this
\* is the first prompt, else the user message.
HookUserPromptSubmit(sid, prompt) ==
    /\ CanStart
    /\ ConfigOn
    /\ nHooks' = nHooks + 1
    /\ LET ld == loadSessionState(file)
           h == [NewHook("UserPromptSubmit", sid, "json") EXCEPT !.loaded = file.kind, !.reads = @ + 1]
           state == GetEntry(ld.state, sid)
           first == [state EXCEPT !.firstPrompt = prompt]
           counted == [state EXCEPT !.messageCount = NumOr0(@) + 1]
       IN  IF ld.threw
           THEN Catch(h) /\ UNCHANGED <<file, recorded, attempted, reported>>
           ELSE IF state.firstPrompt = ""
           THEN /\ cur' = first
                /\ mem' = PutEntry(ld.state, sid, first)
                /\ file' = saveSessionState(mem')
                /\ recorded' = Recorded(file')
                /\ req' = SessionReq(sid, "", generateTitle(prompt), "", NoTokenUsage,
                                     Undef, Undef, Undef, 0, 0)
                /\ reported' = Titled(sid)
                /\ pc' = "await_title"
                /\ hook' = Issued(Saved([h EXCEPT !.prompt = prompt]))
                /\ UNCHANGED <<queue, exitCode, stderr, attempted>>
           ELSE /\ cur' = counted
                /\ mem' = PutEntry(ld.state, sid, counted)
                /\ file' = saveSessionState(mem')
                /\ recorded' = Recorded(file')
                /\ req' = PromptMessageReq(sid, prompt, StartTime)
                /\ attempted' = Attempt(req')
                /\ pc' = "await_prompt"
                /\ hook' = Issued(Saved(h))
                /\ UNCHANGED <<queue, exitCode, stderr, reported>>
    /\ UNCHANGED <<envVars, delivered, lastStop, ended, pureVars>>

\* data.tool_name of a PostToolUse event.
ToolName == "Bash"

\* case "PostToolUse", up to `await client.syncMessage(message)`.
HookPostToolUse(sid, toolUseId, data) ==
    /\ CanStart
    /\ ConfigOn
    /\ nHooks' = nHooks + 1
    /\ LET ld == loadSessionState(file)
           h == [NewHook("PostToolUse", sid, "json") EXCEPT !.loaded = file.kind, !.reads = @ + 1]
           id == IF toolUseId # "" THEN GivenId(toolUseId) ELSE TimeId("tool", sid, StartTime)
       IN  IF ld.threw
           THEN Catch(h) /\ UNCHANGED attempted
           ELSE IF config.syncToolCalls # "true"
           THEN Exit(NormalExitCode, FALSE, h) /\ UNCHANGED attempted
           ELSE /\ mem' = ld.state
                /\ cur' = GetEntry(ld.state, sid)
                /\ req' = [MessageReq(sid, id, "assistant", "", ToolName) EXCEPT
                              !.parts = transformMessage(ToolName, data.tool_input,
                                            IF data.output # "" THEN data.output
                                            ELSE data.error)]
                /\ attempted' = Attempt(req')
                /\ pc' = "await_tool"
                /\ hook' = Issued(h)
                /\ UNCHANGED <<queue, exitCode, stderr>>
    /\ UNCHANGED <<file, envVars, delivered, recorded, lastStop, reported, ended, pureVars>>


\* The updates case "Stop" makes to state from the stats of the transcript,
\* before the loop over the assistant messages.
StopUpdate(state, stats) ==
    LET tokens == stats.inputTokens > 0 \/ stats.outputTokens > 0
                  \/ stats.cacheReadTokens > 0
        totalInput == stats.inputTokens + stats.cacheCreationTokens + stats.cacheReadTokens
        priced == stats.model # ""
                  /\ (stats.inputTokens # 0 \/ stats.outputTokens # 0
                      \/ stats.cacheReadTokens # 0)
    IN  [state EXCEPT
            !.tokenUsage = IF tokens
                           THEN [present |-> TRUE, input |-> totalInput,
                                 output |-> stats.outputTokens]
                           ELSE @,
            !.cacheCreationTokens = IF tokens THEN stats.cacheCreationTokens ELSE @,
            !.cacheReadTokens = IF tokens THEN stats.cacheReadTokens ELSE @,
            !.model = IF stats.model # "" /\ @ = "" THEN stats.model ELSE @,
            !.title = IF stats.title # "" /\ @ = "" THEN stats.title ELSE @,
            !.startedAt = IF stats.startedAt # 0 THEN stats.startedAt ELSE @,
            !.endedAt = IF stats.endedAt # 0 THEN stats.endedAt ELSE @,
            !.durationMs = IF NumOr0(stats.durationMs) # 0 THEN stats.durationMs ELSE @,
            !.toolCallCount = IF stats.toolCallCount > 0 THEN stats.toolCallCount ELSE @,
            !.costEstimate = IF priced THEN calculateCost(stats.model, stats) ELSE @]

\* syncedMessages: state.syncedMessageUuids when it is a Set, else a new Set of
\* the array, or of nothing.
SyncedMessages(state) ==
    LET u == state.syncedMessageUuids
    IN  IF u.tag = "Set" THEN u
        ELSE IF u.tag = "Array" THEN [tag |-> "Set", elems |-> SetFromArray(u.elems)]
        ELSE [tag |-> "Set", elems |-> <<>>]

\* The loop's `continue`: the messages left once those already synced are passed.
RECURSIVE SkipSynced(_, _)
SkipSynced(msgs, synced) ==
    IF msgs # <<>> /\ Head(msgs).uuid # "" /\ Head(msgs).uuid \in Elems(synced.elems)
    THEN SkipSynced(Tail(msgs), synced)
    ELSE msgs

\* An end of case "Stop" that sends the session summary first and leaves the
\* save of the ledger for after the reply.
StopSaveAfterSummary(sid, led, state, tp, h) ==
    /\ hook' = Issued(h)
    /\ cur' = state
    /\ mem' = PutEntry(led, sid, state)
    /\ req' = SessionReq(sid, state.model, "", "", state.tokenUsage, state.messageCount,
                         state.toolCallCount, state.costEstimate, 0, 0)
    /\ reported' = Report(req')
    /\ pc' = "await_stopsession"
    /\ queue' = <<>>
    /\ UNCHANGED <<file, recorded, lastStop, attempted>>

\* The end of case "Stop": the entry is stored in the ledger led, the ledger
\* saved and the session summary sent.  tp tells which transcript was scanned.
StopSave(sid, led, state, tp, h) ==
    /\ hook' = Issued(Saved(h))
    /\ lastStop' = IF tp = "none" THEN lastStop
                   ELSE [lastStop EXCEPT ![sid] = TranscriptAt(sid, tp)]
    /\ cur' = state
    /\ mem' = PutEntry(led, sid, state)
    /\ file' = saveSessionState(mem')
    /\ recorded' = Recorded(file')
    /\ req' = SessionReq(sid, state.model, "", "", state.tokenUsage, state.messageCount,
                         state.toolCallCount, state.costEstimate, 0, 0)
    /\ reported' = Report(req')
    /\ pc' = "await_stopsession"
    /\ queue' = <<>>
    /\ UNCHANGED attempted

\* A loop that saves the ledger each time it has marked a message as synced.
StopLoopSaving(sid, led, state, msgs, t, tp, h) ==
    LET left == SkipSynced(msgs, state.syncedMessageUuids)
        msg == Head(left)
        added == IF msg.uuid # "" THEN Append(state.syncedMessageUuids.elems, msg.uuid)
                 ELSE state.syncedMessageUuids.elems
        id == IF msg.uuid # "" THEN GivenId(msg.uuid) ELSE TimeId("assistant", sid, t)
    IN  IF left = <<>>
        THEN StopSave(sid, led, state, tp, h)
        ELSE /\ cur' = [state EXCEPT !.syncedMessageUuids.elems = added,
                                     !.messageCount = NumOr0(@) + 1]
             /\ mem' = PutEntry(led, sid, cur')
             /\ file' = saveSessionState(mem')
             /\ recorded' = Recorded(file')
             /\ hook' = Issued(Saved(h))
             /\ req' = MessageReq(sid, id, "assistant", msg.text, "")
             /\ attempted' = Attempt(req')
             /\ queue' = Tail(left)
             /\ pc' = "await_stopmsg"
             /\ UNCHANGED <<lastStop, reported>>

\* The loop over transcript.assistantMessages from the messages msgs on, up
\* to the next await: the next message that is not synced is sent; when none
\* is left the set is stored in the entry and the handler goes on to its end.
\* state.syncedMessageUuids holds syncedMessages during the loop.
StopLoop(sid, led, state, msgs, t, tp, h) ==
    LET left == SkipSynced(msgs, state.syncedMessageUuids)
        msg == Head(left)
        added == IF msg.uuid # "" THEN Append(state.syncedMessageUuids.elems, msg.uuid)
                 ELSE state.syncedMessageUuids.elems
        id == IF msg.uuid # "" THEN GivenId(msg.uuid) ELSE TimeId("assistant", sid, t)
    IN  IF left = <<>>
        THEN StopSave(sid, led, state, tp, h)
        ELSE /\ hook' = Issued(h)
             /\ cur' = [state EXCEPT !.syncedMessageUuids.elems = added,
                                     !.messageCount = NumOr0(@) + 1]
             /\ mem' = led
             /\ req' = MessageReq(sid, id, "assistant", msg.text, "")
             /\ attempted' = Attempt(req')
             /\ queue' = Tail(left)
             /\ pc' = "await_stopmsg"
             /\ UNCHANGED <<file, recorded, lastStop, reported>>

\* History: the Stop event for sid is delivered again.  The process before
\* this one handled a Stop of the session to its end without a failure, and
\* the transcript is as the session's last Stop scanned it.
RepeatedStop(sid, tp) ==
    /\ pc = "exited"
    /\ hook.event = "Stop" /\ hook.sid = sid /\ hook.input = "json"
    /\ ~hook.failed /\ hook.writes = 1
    /\ tp # "none" /\ hook.tp = tp /\ lastStop[sid] = TranscriptAt(sid, tp)

\* case "Stop", up to its first await.  tp = "none": the event names no
\* transcript_path.
HookStop(sid, tp) ==
    /\ CanStart
    /\ ConfigOn
    /\ nHooks' = nHooks + 1
    /\ LET ld == loadSessionState(file)
           h == [NewHook("Stop", sid, "json") EXCEPT
                    !.loaded = file.kind, !.reads = @ + 1, !.tp = tp,
                    !.unchanged = tp # "none" /\ lastStop[sid] = TranscriptAt(sid, tp),
                    !.repeat = RepeatedStop(sid, tp)]
           state == GetEntry(ld.state, sid)
           transcript == parseTranscriptFile(TranscriptAt(sid, tp), StartTime)
           updated == StopUpdate(state, transcript.stats)
           looping == [updated EXCEPT !.syncedMessageUuids = SyncedMessages(updated)]
       IN  IF ld.threw
           THEN Catch(h) /\ UNCHANGED <<file, recorded, attempted, lastStop, reported>>
           ELSE /\ UNCHANGED <<exitCode, stderr>>
                /\ IF tp = "none"
                   THEN StopSave(sid, ld.state, state, tp, h)
                   ELSE StopLoop(sid, ld.state, looping, transcript.assistantMessages,
                                 StartTime, tp, h)
    /\ UNCHANGED <<envVars, delivered, ended, pureVars>>

\* ------------------------------------------------------------ HTTP replies
\* A catch block that stores the entry as the handler left it and saves the
\* ledger before it exits.
RequestFailsSaving ==
    /\ pc \in Awaits
    /\ file' = saveSessionState(PutEntry(mem, hook.sid, cur))
    /\ recorded' = Recorded(file')
    /\ Catch(Answered(Saved([hook EXCEPT !.failed = TRUE])))
    /\ UNCHANGED <<envVars, attempted, delivered, lastStop, ended, reported, nHooks, pureVars>>

\* A client whose syncMessage logs the failure and returns: the Stop loop goes
\* on with the next message as if the request had succeeded.
RequestFailsSwallowed ==
    /\ pc \in Awaits
    /\ IF pc = "await_stopmsg"
       THEN /\ StopLoop(hook.sid, mem, cur, queue, RunTime, hook.tp,
                        Answered([hook EXCEPT !.failed = TRUE]))
            /\ UNCHANGED <<exitCode, stderr, envVars, delivered, ended, nHooks, pureVars>>
       ELSE /\ Catch(Answered([hook EXCEPT !.failed = TRUE]))
            /\ UNCHANGED <<file, envVars, histVars, nHooks, pureVars>>

\* The request in flight fails (fetch rejects, or the status is not ok):
\* syncSession and syncMessage log and rethrow, and the hook's catch block exits.
RequestFails ==
    /\ pc \in Awaits
    /\ Catch(Answered([hook EXCEPT !.failed = TRUE]))
    /\ UNCHANGED <<file, envVars, histVars, nHooks, pureVars>>

\* SessionStart: the session record was accepted.
SessionStartSynced ==
    /\ pc = "await_start"
    /\ Exit(NormalExitCode, FALSE, Answered(hook))
    /\ UNCHANGED <<file, envVars, histVars, nHooks, pureVars>>

\* SessionEnd: the final record was accepted; the entry is deleted and the
\* ledger saved.
SessionEndSynced ==
    /\ pc = "await_end"
    /\ file' = saveSessionState(DeleteEntry(mem, hook.sid))
    /\ recorded' = Recorded(file')
    /\ ended' = IF hook.sid \in DOMAIN mem THEN ended \cup {hook.sid} ELSE ended
    /\ Exit(NormalExitCode, FALSE, Answered(Saved(hook)))
    /\ UNCHANGED <<envVars, attempted, delivered, lastStop, reported, nHooks, pureVars>>

\* A handler that goes on from the title request without its reply: the
\* request is still pending when the message is sent.
TitleNotAwaited ==
    /\ pc = "await_title"
    /\ cur' = [cur EXCEPT !.messageCount = NumOr0(@) + 1]
    /\ mem' = PutEntry(mem, hook.sid, cur')
    /\ file' = saveSessionState(mem')
    /\ recorded' = Recorded(file')
    /\ req' = PromptMessageReq(hook.sid, hook.prompt, RunTime)
    /\ attempted' = Attempt(req')
    /\ pc' = "await_prompt"
    /\ hook' = Issued(Saved(hook))
    /\ UNCHANGED <<queue, exitCode, stderr, envVars, delivered, lastStop, reported, ended,
                   nHooks, pureVars>>

\* UserPromptSubmit: the title record was accepted; the message count is
\* incremented, the ledger saved again and the user message sent.
TitleSynced ==
    /\ pc = "await_title"
    /\ cur' = [cur EXCEPT !.messageCount = NumOr0(@) + 1]
    /\ mem' = PutEntry(mem, hook.sid, cur')
    /\ file' = saveSessionState(mem')
    /\ recorded' = Recorded(file')
    /\ req' = PromptMessageReq(hook.sid, hook.prompt, RunTime)
    /\ attempted' = Attempt(req')
    /\ pc' = "await_prompt"
    /\ hook' = Issued(Saved(Answered(hook)))
    /\ UNCHANGED <<queue, exitCode, stderr, envVars, delivered, lastStop, reported, ended,
                   nHooks, pureVars>>

\* UserPromptSubmit, PostToolUse: the message was accepted.
MessageSynced ==
    /\ pc \in {"await_prompt", "await_tool"}
    /\ delivered' = Deliver(req)
    /\ Exit(NormalExitCode, FALSE, Answered(hook))
    /\ UNCHANGED <<file, envVars, attempted, recorded, lastStop, reported, ended, nHooks, pureVars>>

\* Stop: an assistant message was accepted; the loop goes on.
StopMessageSynced ==
    /\ pc = "await_stopmsg"
    /\ delivered' = Deliver(req)
    /\ StopLoop(hook.sid, mem, cur, queue, RunTime, hook.tp, Answered(hook))
    /\ UNCHANGED <<exitCode, stderr, envVars, ended, nHooks, pureVars>>

\* Stop: the session summary was accepted.
StopSessionSynced ==
    /\ pc = "await_stopsession"
    /\ Exit(NormalExitCode, FALSE, Answered(hook))
    /\ UNCHANGED <<file, envVars, histVars, nHooks, pureVars>>

\* ------------------------------------------------------------- environment
RECURSIVE SumLen(_)
SumLen(S) ==
    IF S = {} THEN 0
    ELSE LET s == CHOOSE x \in S : TRUE IN Len(transcripts[s]) + SumLen(S \ {s})

\* The number of lines the host has written so far.
Written == SumLen(Sessions)

\* The host appends a line to a session's transcript.
AppendLine(sid) ==
    /\ pc \notin Awaits
    /\ Written < MaxLines
    /\ Len(transcripts[sid]) < Len(HostScript)
    /\ transcripts' = [transcripts EXCEPT ![sid] = Append(@, HostScript[Len(@) + 1])]
    /\ UNCHANGED <<config, file, pc, hook, mem, cur, queue, req, exitCode, stderr,
                   histVars, nHooks, pureVars>>

\* The values of the optional fields of the event payloads.
DataModels == {"", "claude-opus-4"}

\* The optional fields of a SessionEnd event: none given, a cost of zero, or
\* a cost and the two counts.
EndData ==
    {[cost_estimate |-> Undef, message_count |-> Undef, tool_call_count |-> Undef],
     [cost_estimate |-> 0, message_count |-> Undef, tool_call_count |-> Undef],
     [cost_estimate |-> 500, message_count |-> 3, tool_call_count |-> 2]}

ToolUseIds == {"", "toolu_1"}

\* data.tool_input and data.tool_result of a PostToolUse event: a command
\* with its output, and a command that failed.
ToolData ==
    {[tool_input |-> "cat .env", output |-> "API_KEY=k", error |-> ""],
     [tool_input |-> "cat .env", output |-> "", error |-> "EACCES .env"]}

Next ==
    \/ \E e \in Events \cup {UnknownEvent} : HookNotConfigured(e)
    \/ \E e \in Events \cup {UnknownEvent} : HookAutoSyncOff(e)
    \/ \E e \in Events \cup {UnknownEvent} : HookEmptyStdin(e)
    \/ \E e \in Events : HookInvalidJson(e)
    \/ \E s \in Hosted : HookUnknownEvent(s)
    \/ \E s \in Hosted, tp \in {"missing", "file"}, m \in DataModels :
          HookSessionStart(s, tp, m)
    \/ \E s \in Hosted, tp \in {"missing", "file"}, d \in EndData :
          HookSessionEnd(s, tp, d)
    \/ \E s \in Hosted, p \in Prompts : HookUserPromptSubmit(s, p)
    \/ \E s \in Hosted, t \in ToolUseIds, d \in ToolData : HookPostToolUse(s, t, d)
    \/ \E s \in Hosted, tp \in {"none", "missing", "file"} : HookStop(s, tp)
    \/ RequestFails
    \/ SessionStartSynced
    \/ SessionEndSynced
    \/ TitleSynced
    \/ MessageSynced
    \/ StopMessageSynced
    \/ StopSessionSynced
    \/ \E s \in Hosted : AppendLine(s)

Spec == Init /\ [][Next]_vars

\* The request in flight completes, with success or with failure.
Reply ==
    \/ RequestFails
    \/ SessionStartSynced
    \/ SessionEndSynced
    \/ TitleSynced
    \/ MessageSynced
    \/ StopMessageSynced
    \/ StopSessionSynced

\* The hook command when every HTTP request eventually completes.  (stdin is
\* read to its end within the step that starts the invocation.)
SpecLive == Spec /\ WF_vars(Reply)

\* ------------------------------------------- a ledger with another session
\* The session the host ran before the sessions of Hosted.
OtherSession == "s2"

\* The entry a first UserPromptSubmit leaves for the session.
PromptedEntry == [EmptyEntry EXCEPT !.firstPrompt = "add tests", !.messageCount = 1]

\* The entry a Stop leaves after it: the transcript held the one assistant
\* entry u1, whose message was sent.
StoppedEntry ==
    LET transcript == parseTranscriptFile(<<AssistantU1>>, 1)
        updated == StopUpdate(PromptedEntry, transcript.stats)
    IN  [updated EXCEPT !.syncedMessageUuids = [tag |-> "Set", elems |-> <<"u1">>],
                        !.messageCount = 2]

\* The ledger files the hooks of the other session left.
OtherLedgers ==
    {saveSessionState([s \in {OtherSession} |-> e]) : e \in {PromptedEntry, StoppedEntry}}

InitFrame ==
    /\ config \in Configs
    /\ file \in OtherLedgers
    /\ transcripts = [s \in Sessions |-> <<>>]
    /\ pc = "idle"
    /\ hook = NoHook
    /\ mem = EmptyLedger
    /\ cur = EmptyEntry
    /\ queue = <<>>
    /\ req = NoReq
    /\ exitCode = 0
    /\ stderr = FALSE
    /\ attempted = {}
    /\ delivered = {}
    /\ recorded = {}
    /\ lastStop = [s \in Sessions |-> NeverScanned]
    /\ reported = [s \in Sessions |-> NoReport]
    /\ ended = {}
    /\ nHooks = 0
    /\ scanLines = <<>>
    /\ scanPos = 1
    /\ scanAcc = ScanInit
    /\ costModel = ""
    /\ costStats = NoStats
    /\ costResult = Undef
    /\ messageCounter = 0
    /\ toolCallCounter = 0
    /\ sessionCache = [s \in Sessions |-> NoCacheEntry]
    /\ ending = {}
    /\ procs = [p \in Procs |-> NoProc]
    /\ cmd = NoCmd

\* The hook command for the sessions of Hosted, started with the ledger the
\* other session left.
SpecFrame == InitFrame /\ [][Next]_vars

\* ------------------------------------------------------- the scanner alone
\* The transcripts given to the scanner: every sequence of at most
\* ScanMaxLines lines of ScanLines.
ScanTranscripts == UNION {[1..n -> ScanLines] : n \in 0..ScanMaxLines}

\* No hook runs; a transcript is about to be scanned.
InitScan ==
    /\ config = NoConfig
    /\ file = MissingFile
    /\ transcripts = [s \in Sessions |-> <<>>]
    /\ pc = "idle"
    /\ hook = NoHook
    /\ mem = EmptyLedger
    /\ cur = EmptyEntry
    /\ queue = <<>>
    /\ req = NoReq
    /\ exitCode = 0
    /\ stderr = FALSE
    /\ attempted = {}
    /\ delivered = {}
    /\ recorded = {}
    /\ lastStop = [s \in Sessions |-> NeverScanned]
    /\ reported = [s \in Sessions |-> NoReport]
    /\ ended = {}
    /\ nHooks = 0
    /\ scanLines \in ScanTranscripts
    /\ scanPos = 1
    /\ scanAcc = ScanInit
    /\ costModel = ""
    /\ costStats = NoStats
    /\ costResult = Undef
    /\ messageCounter = 0
    /\ toolCallCounter = 0
    /\ sessionCache = [s \in Sessions |-> NoCacheEntry]
    /\ ending = {}
    /\ procs = [p \in Procs |-> NoProc]
    /\ cmd = NoCmd

\* One iteration of `for (const line of lines)`.
ScanStep ==
    /\ scanPos <= Len(scanLines)
    /\ scanAcc' = ScanLine(scanAcc, scanLines[scanPos], StartTime)
    /\ scanPos' = scanPos + 1
    /\ UNCHANGED <<config, file, transcripts, pc, hook, mem, cur, queue, req, exitCode,
                   stderr, histVars, nHooks, scanLines, costVars, pluginVars, procs, cmd>>

NextScan == ScanStep

SpecScan == InitScan /\ [][NextScan]_vars

\* The lines the loop has passed.
Scanned == SubSeq(scanLines, 1, scanPos - 1)

\* The loop is over.
ScanDone == scanPos > Len(scanLines)

\* ------------------------------------------------- the cost estimator alone
\* The largest of the small token counts given to calculateCost.
CostMaxTokens == 2

TokenCounts == (0..CostMaxTokens) \cup {50, 100}

\* The model names given to calculateCost: undefined or empty (""), the keys
\* of the table, parts of keys, a name with no key, a name every object has.
CostModels ==
    {MODEL_PRICING[i].key : i \in 1..Len(MODEL_PRICING)}
        \cup {"", "claude-opus-4", "claude-3", "haiku", "gpt-4", "constructor"}

\* No hook runs; calculateCost is about to be called.
InitCost ==
    /\ config = NoConfig
    /\ file = MissingFile
    /\ transcripts = [s \in Sessions |-> <<>>]
    /\ pc = "idle"
    /\ hook = NoHook
    /\ mem = EmptyLedger
    /\ cur = EmptyEntry
    /\ queue = <<>>
    /\ req = NoReq
    /\ exitCode = 0
    /\ stderr = FALSE
    /\ attempted = {}
    /\ delivered = {}
    /\ recorded = {}
    /\ lastStop = [s \in Sessions |-> NeverScanned]
    /\ reported = [s \in Sessions |-> NoReport]
    /\ ended = {}
    /\ nHooks = 0
    /\ scanLines = <<>>
    /\ scanPos = 1
    /\ scanAcc = ScanInit
    /\ costModel \in CostModels
    /\ costStats \in [inputTokens : TokenCounts, cacheCreationTokens : TokenCounts,
                       cacheReadTokens : TokenCounts, outputTokens : TokenCounts]
    /\ costResult = Undef
    /\ messageCounter = 0
    /\ toolCallCounter = 0
    /\ sessionCache = [s \in Sessions |-> NoCacheEntry]
    /\ ending = {}
    /\ procs = [p \in Procs |-> NoProc]
    /\ cmd = NoCmd

\* The call of calculateCost.
CostStep ==
    /\ costResult = Undef
    /\ costResult' = calculateCost(costModel, costStats)
    /\ UNCHANGED <<config, file, transcripts, pc, hook, mem, cur, queue, req, exitCode,
                   stderr, histVars, nHooks, scanVars, costModel, costStats, pluginVars, procs, cmd>>

NextCost == CostStep

SpecCost == InitCost /\ [][NextCost]_vars

\* calculateCost has returned.
CostDone == costResult # Undef

\* --------------------------------------------------------------- the plugin
\* The number of events the host sends to the plugin's handlers.
MaxEvents == 3

\* The loop body of the plugin's parseTranscript for a parsed entry.
PluginScanEntry(stats, line) ==
    LET s1 == IF stats.cwd = "" /\ line.cwd # "" THEN [stats EXCEPT !.cwd = line.cwd] ELSE stats
        s2 == IF s1.title = "" /\ line.slug # "" THEN [s1 EXCEPT !.title = line.slug] ELSE s1
        s3 == IF line.type = "user" THEN [s2 EXCEPT !.messageCount = @ + 1] ELSE s2
        s4 == IF line.message.model # "" /\ s3.model = ""
              THEN [s3 EXCEPT !.model = line.message.model] ELSE s3
        s5 == IF line.message.usage.present
              THEN [s4 EXCEPT !.inputTokens = @ + line.message.usage.input
                                                + line.message.usage.cacheCreation
                                                + line.message.usage.cacheRead,
                              !.outputTokens = @ + line.message.usage.output]
              ELSE s4
        tools == Cardinality({j \in 1..Len(line.message.parts) :
                                 line.message.parts[j].type = "tool_use"})
    IN  IF line.type = "assistant" /\ line.message.present
        THEN [s5 EXCEPT !.toolCallCount = @ + tools]
        ELSE s3

\* The plugin's parseTranscript: a line that does not parse to an entry
\* (not JSON, empty, or null) throws inside the inner try and is passed over.
RECURSIVE parseTranscript(_)
parseTranscript(lines) ==
    IF lines = <<>>
    THEN [model |-> "", inputTokens |-> 0, outputTokens |-> 0, messageCount |-> 0,
          toolCallCount |-> 0, title |-> "", cwd |-> ""]
    ELSE LET stats == parseTranscript(SubSeq(lines, 1, Len(lines) - 1))
             line == lines[Len(lines)]
         IN  IF line.json # "obj" THEN stats ELSE PluginScanEntry(stats, line)

\* The plugin's calculateCost(model, inputTokens, outputTokens): its table has
\* the six keys with their input and output rates.
pluginCalculateCost(model, inputTokens, outputTokens) ==
    IF model = "" THEN 0
    ELSE IF model \in InheritedNames THEN NaN
    ELSE IF MatchingKeys(model) = {} THEN 0
    ELSE LET pricing == MODEL_PRICING[FindKey(model)]
         IN  inputTokens * pricing.input + outputTokens * pricing.output

\* `${sessionId}-msg-${messageCounter}` and `${sessionId}-tool-${toolCallCounter}`.
CounterId(kind, sid, n) == [kind |-> kind, v |-> sid, t |-> n]

\* createPlugin() returned the handlers, and the host may send an event.
PluginLoaded == ConfigOn /\ nHooks < MaxEvents

\* What the plugin leaves alone.
pluginRest == <<config, file, transcripts, pc, hook, mem, cur, queue, exitCode, stderr, delivered, recorded, lastStop, reported, ended, scanVars, costVars, procs, cmd>>

\* SessionStart: both counters are reset, the cache entry is updated with the
\* values the transcript has, and the session record is sent.
PluginSessionStart(sid, tp) ==
    /\ PluginLoaded
    /\ nHooks' = nHooks + 1
    /\ messageCounter' = 0
    /\ toolCallCounter' = 0
    /\ LET stats == parseTranscript(TranscriptAt(sid, tp))
           current == sessionCache[sid]
       IN  /\ sessionCache' =
                 [sessionCache EXCEPT ![sid] =
                     [present |-> TRUE,
                      model |-> IF stats.model # "" THEN stats.model ELSE current.model,
                      title |-> IF stats.title # "" THEN stats.title ELSE current.title,
                      cwd |-> IF stats.cwd # "" THEN stats.cwd ELSE current.cwd,
                      tokenUsage |-> current.tokenUsage,
                      startedAt |-> StartTime]]
           /\ req' = SessionReq(sid, stats.model, stats.title, stats.cwd, NoTokenUsage,
                                Undef, Undef, Undef, StartTime, 0)
    /\ UNCHANGED <<pluginRest, attempted, ending>>

\* UserPromptSubmit: the message counter is advanced and names the message.
PluginUserPromptSubmit(sid, prompt) ==
    /\ PluginLoaded
    /\ nHooks' = nHooks + 1
    /\ messageCounter' = messageCounter + 1
    /\ req' = MessageReq(sid, CounterId("msg", sid, messageCounter'), "user", prompt, "")
    /\ attempted' = Attempt(req')
    /\ UNCHANGED <<pluginRest, toolCallCounter, sessionCache, ending>>

\* PostToolUse: nothing when syncToolCalls is not set; else both counters are
\* advanced and the tool counter names the message.
PluginPostToolUse(sid) ==
    /\ PluginLoaded
    /\ nHooks' = nHooks + 1
    /\ IF config.syncToolCalls # "true"
       THEN UNCHANGED <<messageCounter, toolCallCounter, req, attempted>>
       ELSE /\ toolCallCounter' = toolCallCounter + 1
            /\ messageCounter' = messageCounter + 1
            /\ req' = MessageReq(sid, CounterId("tool", sid, toolCallCounter'),
                                 "assistant", "", ToolName)
            /\ attempted' = Attempt(req')
    /\ UNCHANGED <<pluginRest, sessionCache, ending>>

\* Stop: the cache entry takes the token totals of the transcript, and model
\* and title when it has none; nothing is sent.
PluginStop(sid, tp) ==
    /\ PluginLoaded
    /\ nHooks' = nHooks + 1
    /\ LET stats == parseTranscript(TranscriptAt(sid, tp))
           current == sessionCache[sid]
       IN  sessionCache' =
              IF tp # "file" THEN sessionCache
              ELSE [sessionCache EXCEPT ![sid] =
                       [current EXCEPT
                           !.present = TRUE,
                           !.tokenUsage = [present |-> TRUE, input |-> stats.inputTokens,
                                           output |-> stats.outputTokens],
                           !.model = IF stats.model # "" /\ @ = "" THEN stats.model ELSE @,
                           !.title = IF stats.title # "" /\ @ = "" THEN stats.title ELSE @]]
    /\ UNCHANGED <<pluginRest, messageCounter, toolCallCounter, req, attempted, ending>>

\* SessionEnd, up to `await client.syncSession(session)`.
PluginSessionEnd(sid, tp, data) ==
    /\ PluginLoaded
    /\ nHooks' = nHooks + 1
    /\ LET current == sessionCache[sid]
           fromCache == [model |-> current.model, inputTokens |-> current.tokenUsage.input,
                         outputTokens |-> current.tokenUsage.output,
                         messageCount |-> NumOr0(data.message_count),
                         toolCallCount |-> NumOr0(data.tool_call_count),
                         title |-> current.title, cwd |-> current.cwd]
           stats == IF tp = "file" THEN parseTranscript(transcripts[sid]) ELSE fromCache
           cost == IF NumOr0(data.cost_estimate) = 0
                      /\ stats.model # ""
                      /\ (stats.inputTokens # 0 \/ stats.outputTokens # 0)
                   THEN pluginCalculateCost(stats.model, stats.inputTokens, stats.outputTokens)
                   ELSE data.cost_estimate
       IN  req' = SessionReq(sid, stats.model, stats.title,
                             IF stats.cwd # "" THEN stats.cwd ELSE DataCwd,
                             [present |-> TRUE, input |-> stats.inputTokens,
                              output |-> stats.outputTokens],
                             stats.messageCount, stats.toolCallCount, cost,
                             current.startedAt, StartTime)
    /\ ending' = ending \cup {sid}
    /\ UNCHANGED <<pluginRest, messageCounter, toolCallCounter, sessionCache, attempted>>

\* The session record of a SessionEnd was accepted: clearSessionState.
PluginSessionEndSynced(sid) ==
    /\ sid \in ending
    /\ ending' = ending \ {sid}
    /\ sessionCache' = [sessionCache EXCEPT ![sid] = NoCacheEntry]
    /\ UNCHANGED <<pluginRest, messageCounter, toolCallCounter, req, attempted, nHooks>>

\* The session record of a SessionEnd was refused: syncSession rethrows and
\* the cache entry stays.
PluginSessionEndFails(sid) ==
    /\ sid \in ending
    /\ ending' = ending \ {sid}
    /\ UNCHANGED <<pluginRest, messageCounter, toolCallCounter, sessionCache, req, attempted, nHooks>>

NextPlugin ==
    \/ \E s \in Sessions, tp \in {"none", "file"} : PluginSessionStart(s, tp)
    \/ \E s \in Sessions, p \in Prompts : PluginUserPromptSubmit(s, p)
    \/ \E s \in Sessions : PluginPostToolUse(s)
    \/ \E s \in Sessions, tp \in {"none", "file"} : PluginStop(s, tp)
    \/ \E s \in Sessions, tp \in {"none", "file"}, d \in EndData : PluginSessionEnd(s, tp, d)
    \/ \E s \in Sessions : PluginSessionEndSynced(s)
    \/ \E s \in Sessions : PluginSessionEndFails(s)
    \/ \E s \in Hosted : AppendLine(s)

SpecPlugin == Init /\ [][NextPlugin]_vars

\* ------------------------------------------- two overlapping hook processes
RaceAwaits == {"await_title", "await_prompt", "await_stopmsg", "await_stopsession"}

\* A write that adds what the process has counted to the count the file holds
\* now, as a write under a lock would.
WriteLedgerMerging(f, state, loaded) ==
    LET now == loadSessionState(f).state
        Count(led, s) == NumOr0(GetEntry(led, s).messageCount)
    IN  saveSessionState(
            [s \in DOMAIN state |->
                [state[s] EXCEPT !.messageCount =
                    IF Count(state, s) = Count(loaded, s) THEN @
                    ELSE Count(now, s) + (Count(state, s) - Count(loaded, s))]])

\* saveSessionState(state) by a process that loaded the ledger `loaded` while
\* the file holds f: fs.writeFileSync replaces the file, whatever it holds.
WriteLedger(f, state, loaded) == saveSessionState(state)

\* What the race specification leaves alone.
raceRest == <<config, transcripts, pc, hook, mem, cur, queue, req, exitCode, stderr, histVars, scanVars, costVars, pluginVars, cmd>>

\* The process pr saves its ledger.
RaceSave(p, pr) ==
    /\ file' = WriteLedger(file, pr.mem, pr.base)
    /\ procs' = [procs EXCEPT ![p] = [pr EXCEPT !.writes = @ + 1]]

\* A hook process starts and gets as far as loadSessionState().
RaceLoad(p, event, prompt) ==
    /\ procs[p].pc \in {"idle", "exited"}
    /\ nHooks < MaxHooks
    /\ nHooks' = nHooks + 1
    /\ procs' = [procs EXCEPT ![p] =
                    [NoProc EXCEPT !.pc = "loaded", !.event = event, !.prompt = prompt,
                                   !.mem = loadSessionState(file).state,
                                   !.base = loadSessionState(file).state]]
    /\ UNCHANGED <<file, raceRest>>

\* case "UserPromptSubmit", from the switch to its first await.
RaceUserPromptSubmit(p) ==
    /\ procs[p].pc = "loaded"
    /\ procs[p].event = "UserPromptSubmit"
    /\ LET pr == procs[p]
           state == GetEntry(pr.mem, RaceSession)
           first == [state EXCEPT !.firstPrompt = pr.prompt]
           counted == [state EXCEPT !.messageCount = NumOr0(@) + 1]
       IN  IF state.firstPrompt = ""
           THEN RaceSave(p, [pr EXCEPT !.cur = first,
                                      !.mem = PutEntry(pr.mem, RaceSession, first),
                                      !.pc = "await_title"])
           ELSE RaceSave(p, [pr EXCEPT !.cur = counted, !.incs = @ + 1,
                                      !.mem = PutEntry(pr.mem, RaceSession, counted),
                                      !.pc = "await_prompt"])
    /\ UNCHANGED <<nHooks, raceRest>>

\* UserPromptSubmit: the title record was accepted.
RaceTitleSynced(p) ==
    /\ procs[p].pc = "await_title"
    /\ LET pr == procs[p]
           counted == [pr.cur EXCEPT !.messageCount = NumOr0(@) + 1]
       IN  RaceSave(p, [pr EXCEPT !.cur = counted, !.incs = @ + 1,
                                  !.mem = PutEntry(pr.mem, RaceSession, counted),
                                  !.pc = "await_prompt"])
    /\ UNCHANGED <<nHooks, raceRest>>

\* The loop of case "Stop" in process pr up to its next await, and the save
\* after the loop.
RaceStopLoop(p, pr) ==
    LET left == SkipSynced(pr.queue, pr.cur.syncedMessageUuids)
        msg == Head(left)
        added == IF msg.uuid # "" THEN Append(pr.cur.syncedMessageUuids.elems, msg.uuid)
                 ELSE pr.cur.syncedMessageUuids.elems
    IN  IF left = <<>>
        THEN RaceSave(p, [pr EXCEPT !.mem = PutEntry(pr.mem, RaceSession, pr.cur),
                                    !.queue = <<>>, !.pc = "await_stopsession"])
        ELSE /\ procs' = [procs EXCEPT ![p] =
                             [pr EXCEPT !.cur = [pr.cur EXCEPT
                                                    !.syncedMessageUuids.elems = added,
                                                    !.messageCount = NumOr0(@) + 1],
                                        !.incs = @ + 1, !.queue = Tail(left),
                                        !.pc = "await_stopmsg"]]
             /\ UNCHANGED file

\* case "Stop" with the session's transcript, from the switch to its first await.
RaceStop(p) ==
    /\ procs[p].pc = "loaded"
    /\ procs[p].event = "Stop"
    /\ LET pr == procs[p]
           transcript == parseTranscriptFile(transcripts[RaceSession], StartTime)
           updated == StopUpdate(GetEntry(pr.mem, RaceSession), transcript.stats)
           looping == [updated EXCEPT !.syncedMessageUuids = SyncedMessages(updated)]
       IN  RaceStopLoop(p, [pr EXCEPT !.cur = looping, !.queue = transcript.assistantMessages])
    /\ UNCHANGED <<nHooks, raceRest>>

\* Stop: an assistant message was accepted.
RaceStopMessageSynced(p) ==
    /\ procs[p].pc = "await_stopmsg"
    /\ RaceStopLoop(p, procs[p])
    /\ UNCHANGED <<nHooks, raceRest>>

\* process.exit: what the process held in memory is gone.
RaceExit(p) ==
    procs' = [procs EXCEPT ![p] = [NoProc EXCEPT !.pc = "exited", !.event = procs[p].event,
                                                 !.incs = procs[p].incs,
                                                 !.writes = procs[p].writes]]

\* The last request of a handler was accepted.
RaceLastSynced(p) ==
    /\ procs[p].pc \in {"await_prompt", "await_stopsession"}
    /\ RaceExit(p)
    /\ UNCHANGED <<file, nHooks, raceRest>>

\* A request fails: the catch block exits.
RaceRequestFails(p) ==
    /\ procs[p].pc \in RaceAwaits
    /\ RaceExit(p)
    /\ UNCHANGED <<file, nHooks, raceRest>>

\* The ledger is missing, and the session's transcript is written.
InitRace ==
    /\ config = [present |-> TRUE, autoSync |-> "true", syncToolCalls |-> "true"]
    /\ file = MissingFile
    /\ transcripts \in {[s \in Sessions |-> IF s = RaceSession THEN SubSeq(HostScript, 1, n)
                                           ELSE <<>>] : n \in 0..MaxLines}
    /\ pc = "idle"
    /\ hook = NoHook
    /\ mem = EmptyLedger
    /\ cur = EmptyEntry
    /\ queue = <<>>
    /\ req = NoReq
    /\ exitCode = 0
    /\ stderr = FALSE
    /\ attempted = {}
    /\ delivered = {}
    /\ recorded = {}
    /\ lastStop = [s \in Sessions |-> NeverScanned]
    /\ reported = [s \in Sessions |-> NoReport]
    /\ ended = {}
    /\ nHooks = 0
    /\ scanLines = <<>>
    /\ scanPos = 1
    /\ scanAcc = ScanInit
    /\ costModel = ""
    /\ costStats = NoStats
    /\ costResult = Undef
    /\ messageCounter = 0
    /\ toolCallCounter = 0
    /\ sessionCache = [s \in Sessions |-> NoCacheEntry]
    /\ ending = {}
    /\ procs = [p \in Procs |-> NoProc]
    /\ cmd = NoCmd

NextRace ==
    \/ \E p \in Procs, q \in Prompts : RaceLoad(p, "UserPromptSubmit", q)
    \/ \E p \in Procs : RaceLoad(p, "Stop", "")
    \/ \E p \in Procs : RaceUserPromptSubmit(p)
    \/ \E p \in Procs : RaceTitleSynced(p)
    \/ \E p \in Procs : RaceStop(p)
    \/ \E p \in Procs : RaceStopMessageSynced(p)
    \/ \E p \in Procs : RaceLastSynced(p)
    \/ \E p \in Procs : RaceRequestFails(p)

SpecRace == InitRace /\ [][NextRace]_vars

\* ------------------------------------------------------- the login command
\* Strings the user types are sequences of characters.
ConvexCloud == <<"c", "o", "n", "v", "e", "x", ".", "c", "l", "o", "u", "d">>

ConvexSite == <<"c", "o", "n", "v", "e", "x", ".", "s", "i", "t", "e">>

OskPrefix == <<"o", "s", "k", "_">>

\* The answers to the prompt for the Convex URL, as typed.
UrlAnswers ==
    {<<>>,
     <<" ">>,
     <<"h", "t", "t", "p", "s", ":", "/", "/", "a", ".", "c", "o", "n", "v", "e", "x", ".", "c", "l", "o", "u", "d">>,
     <<" ", "b", ".", "c", "o", "n", "v", "e", "x", ".", "s", "i", "t", "e", " ">>,
     <<"h", "t", "t", "p", "s", ":", "/", "/", "a", ".", "c", "o", "n", "v", "e", "x", ".", "d", "e", "v">>,
     <<"h", "t", "t", "p", ":", "/", "/", "x", ".", "i", "o", "/", "c", "o", "n", "v", "e", "x", ".", "c", "l", "o", "u", "d">>}

\* The answers to the prompt for the API key, as typed.
KeyAnswers ==
    {<<>>,
     <<" ", " ">>,
     <<"o", "s", "k", "_", "1">>,
     <<" ", "o", "s", "k", "_", "2", " ">>,
     <<"s", "k", "_", "1">>,
     <<"x", "o", "s", "k", "_", "3">>,
     <<"o", "s", "k">>}

\* String.prototype.trim: the blanks at both ends are removed.
RECURSIVE Trim(_)
Trim(s) ==
    IF s = <<>> THEN s
    ELSE IF Head(s) = " " THEN Trim(Tail(s))
    ELSE IF s[Len(s)] = " " THEN Trim(SubSeq(s, 1, Len(s) - 1))
    ELSE s

\* a.startsWith(b)
StartsWith(a, b) == Len(a) >= Len(b) /\ SubSeq(a, 1, Len(b)) = b

\* The checks of the URL: it is given and names a Convex host.
LoginUrlValid(url) ==
    url # <<>> /\ (Includes(url, ConvexCloud) \/ Includes(url, ConvexSite))

\* A check of the key that accepts osk_ at any place of it.
LoginKeyValidAnywhere(key) == key # <<>> /\ Includes(key, OskPrefix)

\* The checks of the API key: it is given and starts with osk_.
LoginKeyValid(key) == key # <<>> /\ StartsWith(key, OskPrefix)

\* The credentials file: none, or what an earlier login stored.
NoCreds == [present |-> FALSE]

OldCreds ==
    [present |-> TRUE, convexUrl |-> <<"h", "t", "t", "p", "s", ":", "/", "/", "o", "l", "d", ".", "c", "o", "n", "v", "e", "x", ".", "c", "l", "o", "u", "d">>, apiKey |-> <<"o", "s", "k", "_", "0">>,
     autoSync |-> FALSE, syncToolCalls |-> TRUE, syncThinking |-> TRUE]

\* The Config login builds from the two answers.
LoginConfig(url, key) ==
    [present |-> TRUE, convexUrl |-> url, apiKey |-> key,
     autoSync |-> TRUE, syncToolCalls |-> TRUE, syncThinking |-> FALSE]

\* process.exit(code) of the login command.
LoginExit(code) == cmd' = [cmd EXCEPT !.pc = "exited", !.exit = code]

\* The status of a command that a failed check ends.
LoginFailure == 1

\* login is started: the user will type the two answers; the credentials file
\* is as `stored` (stored0 keeps what it was when the command started).
InitLogin ==
    /\ \E u \in UrlAnswers, k \in KeyAnswers, c \in {NoCreds, OldCreds} :
          cmd = [pc |-> "ask_url", typedUrl |-> u, typedKey |-> k, url |-> <<>>,
                 key |-> <<>>, connected |-> "untested", stored |-> c, stored0 |-> c,
                 saved |-> FALSE, exit |-> Undef]
    /\ config = NoConfig
    /\ file = MissingFile
    /\ transcripts = [s \in Sessions |-> <<>>]
    /\ pc = "idle"
    /\ hook = NoHook
    /\ mem = EmptyLedger
    /\ cur = EmptyEntry
    /\ queue = <<>>
    /\ req = NoReq
    /\ exitCode = 0
    /\ stderr = FALSE
    /\ attempted = {}
    /\ delivered = {}
    /\ recorded = {}
    /\ lastStop = [s \in Sessions |-> NeverScanned]
    /\ reported = [s \in Sessions |-> NoReport]
    /\ ended = {}
    /\ nHooks = 0
    /\ scanLines = <<>>
    /\ scanPos = 1
    /\ scanAcc = ScanInit
    /\ costModel = ""
    /\ costStats = NoStats
    /\ costResult = Undef
    /\ messageCounter = 0
    /\ toolCallCounter = 0
    /\ sessionCache = [s \in Sessions |-> NoCacheEntry]
    /\ ending = {}
    /\ procs = [p \in Procs |-> NoProc]

\* What the interactive commands leave alone.
cmdRest == <<config, file, transcripts, pc, hook, mem, cur, queue, req, exitCode, stderr, histVars, nHooks, scanVars, costVars, pluginVars, procs>>

\* The answer to the first prompt arrives, trimmed, and is checked.
LoginUrlAnswered ==
    /\ cmd.pc = "ask_url"
    /\ LET url == Trim(cmd.typedUrl)
       IN  IF LoginUrlValid(url)
           THEN cmd' = [cmd EXCEPT !.pc = "ask_key", !.url = url]
           ELSE LoginExit(LoginFailure)
    /\ UNCHANGED cmdRest

\* The answer to the second prompt arrives, trimmed, and is checked; the
\* connection test is started.
LoginKeyAnswered ==
    /\ cmd.pc = "ask_key"
    /\ LET key == Trim(cmd.typedKey)
       IN  IF LoginKeyValid(key)
           THEN cmd' = [cmd EXCEPT !.pc = "testing", !.key = key]
           ELSE LoginExit(LoginFailure)
    /\ UNCHANGED cmdRest

\* testConnection() returns: true when /health answered ok, false when it
\* answered otherwise or fetch rejected.  When connected, saveConfig writes
\* the credentials file, or throws when the file cannot be written.
LoginTested(health, write) ==
    /\ cmd.pc = "testing"
    /\ IF health # "ok"
       THEN cmd' = [cmd EXCEPT !.pc = "exited", !.exit = LoginFailure, !.connected = health]
       ELSE IF write = "throws"
       THEN cmd' = [cmd EXCEPT !.pc = "exited", !.exit = LoginFailure, !.connected = health]
       ELSE cmd' = [cmd EXCEPT !.pc = "exited", !.exit = 0, !.connected = health,
                               !.stored = LoginConfig(cmd.url, cmd.key), !.saved = TRUE]
    /\ UNCHANGED cmdRest

NextLogin ==
    \/ LoginUrlAnswered
    \/ LoginKeyAnswered
    \/ \E h \in {"ok", "not_ok", "rejects"}, w \in {"written", "throws"} : LoginTested(h, w)

SpecLogin == InitLogin /\ [][NextLogin]_vars

\* ------------------------------------------------------- the setup command
\* CLAUDE_HOOKS_CONFIG.hooks: for each event one entry with the matcher it
\* has ("" when it has none) and the command `claude-code-sync hook <event>`.
CLAUDE_HOOKS_CONFIG ==
    [null |-> FALSE,
     entries |-> {[event |-> e,
                   matcher |-> IF e \in {"PostToolUse", "Stop"} THEN "*" ELSE "",
                   type |-> "command", command |-> <<"claude-code-sync", "hook", e>>] :
                  e \in Events}]

\* Hooks of the user's own: a value of the key hooks that is not ours.
OtherHooks ==
    [null |-> FALSE,
     entries |-> {[event |-> "Stop", matcher |-> "", type |-> "command",
                   command |-> <<"notify">>]}]

\* The JSON value null as the value of hooks.
NullHooks == [null |-> TRUE, entries |-> {}]

\* The values the key hooks has in the model.
HooksValues == {NullHooks, OtherHooks, CLAUDE_HOOKS_CONFIG}

\* The objects settings.json holds: hooks, model and permissions, each absent
\* or with a value.
RECURSIVE SettingsOver(_)
SettingsOver(keys) ==
    IF keys = {} THEN {[k \in {} |-> ""]}
    ELSE LET key == CHOOSE k \in keys : TRUE
             rest == SettingsOver(keys \ {key})
             vals == IF key = "hooks" THEN HooksValues ELSE {"v"}
         IN  rest \cup
             {[k \in DOMAIN r \cup {key} |-> IF k = key THEN v ELSE r[k]] :
                 r \in rest, v \in vals}

SettingsObjects == SettingsOver({"hooks", "model", "permissions"})

\* settings.json: missing; "json", the text of an object; "unparsable", the
\* text of an object that JSON.parse rejects (a trailing comma, a comment, a
\* byte order mark); "null", the JSON value null.
SettingsFiles ==
    {[kind |-> "missing", data |-> [k \in {} |-> ""]],
     [kind |-> "null", data |-> [k \in {} |-> ""]]}
    \cup {[kind |-> "json", data |-> o] : o \in SettingsObjects}
    \cup {[kind |-> "unparsable", data |-> o] : o \in SettingsObjects}

\* existingSettings after the try: the parsed object, or {} when the file is
\* missing or JSON.parse threw; for null, reading .hooks throws in the try and
\* spreading null adds nothing.
ExistingSettings(f) == IF f.kind = "json" THEN f.data ELSE [k \in {} |-> ""]

\* hasExistingHooks: !!existingSettings.hooks.
HasExistingHooks(f) ==
    /\ f.kind = "json"
    /\ "hooks" \in DOMAIN f.data
    /\ ~f.data["hooks"].null

\* { ...existingSettings, ...CLAUDE_HOOKS_CONFIG }
MergeSettings(existing) ==
    [k \in DOMAIN existing \cup {"hooks"} |->
        IF k = "hooks" THEN CLAUDE_HOOKS_CONFIG ELSE existing[k]]

\* The status setup exits with when it refuses or cannot write.
SetupFailure == 1

\* setup is started, with or without --force, settings.json being as
\* `settings` (settings0 keeps it).
InitSetup ==
    /\ \E f \in SettingsFiles, force \in BOOLEAN :
          cmd = [pc |-> "setup", force |-> force, settings |-> f, settings0 |-> f,
                 written |-> FALSE, exit |-> Undef]
    /\ config = NoConfig
    /\ file = MissingFile
    /\ transcripts = [s \in Sessions |-> <<>>]
    /\ pc = "idle"
    /\ hook = NoHook
    /\ mem = EmptyLedger
    /\ cur = EmptyEntry
    /\ queue = <<>>
    /\ req = NoReq
    /\ exitCode = 0
    /\ stderr = FALSE
    /\ attempted = {}
    /\ delivered = {}
    /\ recorded = {}
    /\ lastStop = [s \in Sessions |-> NeverScanned]
    /\ reported = [s \in Sessions |-> NoReport]
    /\ ended = {}
    /\ nHooks = 0
    /\ scanLines = <<>>
    /\ scanPos = 1
    /\ scanAcc = ScanInit
    /\ costModel = ""
    /\ costStats = NoStats
    /\ costResult = Undef
    /\ messageCounter = 0
    /\ toolCallCounter = 0
    /\ sessionCache = [s \in Sessions |-> NoCacheEntry]
    /\ ending = {}
    /\ procs = [p \in Procs |-> NoProc]

\* The setup action: existing hooks without --force end it with status 1;
\* else the merged settings are written, or the write throws.
Setup(write) ==
    /\ cmd.pc = "setup"
    /\ IF HasExistingHooks(cmd.settings) /\ ~cmd.force
       THEN cmd' = [cmd EXCEPT !.pc = "exited", !.exit = SetupFailure]
       ELSE IF write = "throws"
       THEN cmd' = [cmd EXCEPT !.pc = "exited", !.exit = SetupFailure]
       ELSE cmd' = [cmd EXCEPT
                       !.pc = "exited", !.exit = 0, !.written = TRUE,
                       !.settings = [kind |-> "json",
                                     data |-> MergeSettings(ExistingSettings(cmd.settings))]]
    /\ UNCHANGED cmdRest

NextSetup == \E w \in {"written", "throws"} : Setup(w)

SpecSetup == InitSetup /\ [][NextSetup]_vars

\* -------------------------------------------------------------- properties
\* The ledger file holds an entry for the session.
HasEntry(f, sid) == f.kind = "json" /\ sid \in DOMAIN f.data

\* C1: a message request with a given identifier is never issued for a session
\* once the ledger file has held that identifier in the session's synced set.
C1_SyncedIdNeverResent ==
    [][\A r \in attempted' \ attempted :
          r.id.kind = "given" => <<r.sid, r.id.v>> \notin recorded]_vars

\* C2: no assistant reply of a transcript is sent to /sync/message more than
\* once for its session, whatever requests fail (stated for the replies the
\* backend has accepted: none of them is sent again).
C2_AssistantReplySentOnce ==
    \A r \in attempted :
        (r.role = "assistant" /\ r.toolName = "" /\ r.nth > 1) =>
            \A d \in Earlier(delivered, r) : d.nth >= r.nth

\* C3: no step of a Stop process whose transcript is as it was when the
\* session's previous Stop scanned it, sent its messages and saved the ledger,
\* issues a message request or adds an identifier to the session's synced set
\* in the ledger file.
C3_UnchangedStopSendsNothing ==
    [][(hook'.event = "Stop" /\ hook'.unchanged) =>
          /\ attempted' = attempted
          /\ SyncedIn(file', hook'.sid) \subseteq SyncedIn(file, hook'.sid)]_vars

\* C4: when a SessionEnd process that read its event has exited, the ledger
\* file holds no entry for the session of the event.
C4_EndLeavesNoEntry ==
    (pc = "exited" /\ hook.event = "SessionEnd" /\ hook.input = "json") =>
        ~HasEntry(file, hook.sid)

\* C5: an entry leaves the ledger file only by the SessionEnd process of its
\* session, and once a SessionEnd has removed a session's entry only a
\* SessionStart process puts an entry for that session into the file again.
C5_RemovedEntryStaysRemoved ==
    [][\A s \in Sessions :
          /\ (HasEntry(file, s) /\ ~HasEntry(file', s)) =>
                 (hook.event = "SessionEnd" /\ hook.sid = s)
          /\ (s \in ended /\ ~HasEntry(file, s) /\ HasEntry(file', s)) =>
                 hook'.event = "SessionStart"]_vars

\* C6: a hook process that has exited has exited with status 0, on every path;
\* when a request of it failed, it wrote to standard error.
C6_HookExitsZero ==
    pc = "exited" => (exitCode = 0 /\ (hook.failed => stderr))

\* A process has exited after a request of it failed.
C6_Witness ==
    pc = "exited" /\ hook.failed /\ stderr /\ exitCode = 0 /\ hook.event = "Stop"

\* C7: the ledger a process holds is read back from the file saveSessionState
\* writes for it: loadSessionState gives the same sessions, for each the same
\* synced identifiers (again a Set where it was one) and the same other fields.
C7_SaveLoadRoundTrip ==
    LET ld == loadSessionState(saveSessionState(mem))
    IN  /\ ~ld.threw
        /\ DOMAIN ld.state = DOMAIN mem
        /\ \A s \in DOMAIN mem :
              LET a == mem[s]
                  b == ld.state[s]
              IN  /\ Elems(b.syncedMessageUuids.elems) = Elems(a.syncedMessageUuids.elems)
                  /\ b.syncedMessageUuids.tag = a.syncedMessageUuids.tag
                  /\ [b EXCEPT !.syncedMessageUuids = NoUuids]
                         = [a EXCEPT !.syncedMessageUuids = NoUuids]

\* A process holds a ledger with an entry whose Set has two identifiers and
\* whose counters are set.
C7_Witness ==
    /\ pc = "await_stopsession"
    /\ \E s \in DOMAIN mem :
          /\ mem[s].syncedMessageUuids.tag = "Set"
          /\ Len(mem[s].syncedMessageUuids.elems) >= 1
          /\ mem[s].tokenUsage.present
          /\ mem[s].firstPrompt # ""

\* C8: loadSessionState gives the empty ledger for a missing or corrupt file
\* and raises nothing; the process that loaded it goes on as without prior
\* state: at its requests it holds no entry but the one it made, and it ends
\* in the catch block only for stdin that is not JSON or a failed request.
C8_LoadToleratesBadFile ==
    /\ file.kind # "json" => loadSessionState(file) = [threw |-> FALSE, state |-> EmptyLedger]
    /\ (pc \in Awaits /\ hook.loaded \in {"missing", "corrupt"}) =>
           /\ DOMAIN mem \subseteq {hook.sid}
           /\ hook.event \in {"SessionEnd", "PostToolUse"} =>
                  (mem = EmptyLedger /\ cur = EmptyEntry)
    /\ (pc = "exited" /\ hook.loaded \in {"missing", "corrupt"} /\ stderr) =>
           (hook.failed \/ hook.input = "garbage")

\* A process that loaded a corrupt file is at the request of its handler.
C8_Witness ==
    pc = "await_end" /\ hook.loaded = "corrupt" /\ mem = EmptyLedger

\* C9: malformed (non-JSON) lines among the lines of a transcript change
\* nothing: after every iteration of the loop the scanner holds the result
\* (token totals, counts, model, title, cwd, first and last timestamp,
\* assistant messages) it returns for the lines passed with the malformed ones
\* removed, and so at the end of the scan.
C9_MalformedLinesSkipped ==
    ScanResult(scanAcc) = parseTranscriptFile(RemoveMalformed(Scanned), StartTime)

\* A finished scan of an entry, a malformed line and a further entry.
C9_Witness ==
    /\ ScanDone
    /\ Len(scanLines) = 3
    /\ scanLines[1] = AssistantU1
    /\ IsMalformed(scanLines[2])
    /\ scanLines[3] = AssistantU2
    /\ Len(scanAcc.assistantMessages) = 3

\* The entries of a transcript the token totals are about: the assistant
\* entries with a message that has a usage.
AssistantUsages(lines) ==
    {i \in 1..Len(lines) :
        /\ lines[i].json = "obj"
        /\ lines[i].type = "assistant"
        /\ lines[i].message.present
        /\ lines[i].message.usage.present}

RECURSIVE UsageSum(_, _, _)
UsageSum(lines, S, field) ==
    IF S = {} THEN 0
    ELSE LET i == CHOOSE x \in S : TRUE
         IN  lines[i].message.usage[field] + UsageSum(lines, S \ {i}, field)

\* Every element of every content array of the transcript is an object.
PartsAreObjects(lines) ==
    \A i \in 1..Len(lines) :
        \A j \in 1..Len(lines[i].message.parts) : lines[i].message.parts[j].type # "null"

\* C10: at the end of a scan the input, output, cache-creation and cache-read
\* totals are the sums of the usage fields over all assistant entries of the
\* transcript (stated for the transcripts whose content arrays hold objects
\* only: a null element ends its entry before the usage is read).
C10_TotalsSumAllEntries ==
    (ScanDone /\ PartsAreObjects(scanLines)) =>
        LET S == AssistantUsages(scanLines)
        IN  /\ scanAcc.inputTokens = UsageSum(scanLines, S, "input")
            /\ scanAcc.outputTokens = UsageSum(scanLines, S, "output")
            /\ scanAcc.cacheCreationTokens = UsageSum(scanLines, S, "cacheCreation")
            /\ scanAcc.cacheReadTokens = UsageSum(scanLines, S, "cacheRead")

\* An entry the scanner reads as an assistant message.
IsAssistantEntry(line) ==
    line.json = "obj" /\ line.type = "assistant" /\ line.message.present

\* The entries whose messages are extracted: the assistant entries without
\* identifier, and for each identifier the first assistant entry that has it.
FirstEntries(lines) ==
    {i \in 1..Len(lines) :
        /\ IsAssistantEntry(lines[i])
        /\ \/ lines[i].uuid = ""
           \/ \A k \in 1..(i - 1) :
                 ~(IsAssistantEntry(lines[k]) /\ lines[k].uuid = lines[i].uuid)}

\* The messages of one entry: its text parts that hold text, in order, up to
\* the first element of the content array that is not an object.
RECURSIVE EntryMessages(_, _, _, _)
EntryMessages(parts, uuid, timestamp, model) ==
    IF parts = <<>> \/ Head(parts).type = "null" THEN <<>>
    ELSE (IF Head(parts).type = "text" /\ Head(parts).text # ""
          THEN <<[uuid |-> uuid, text |-> Head(parts).text,
                  timestamp |-> timestamp, model |-> model]>>
          ELSE <<>>)
         \o EntryMessages(Tail(parts), uuid, timestamp, model)

\* The messages of the first n lines, entry by entry.
RECURSIVE ExpectedMessages(_, _, _)
ExpectedMessages(lines, n, now) ==
    IF n = 0 THEN <<>>
    ELSE ExpectedMessages(lines, n - 1, now)
         \o (IF n \in FirstEntries(lines)
             THEN EntryMessages(lines[n].message.parts, lines[n].uuid,
                                IF lines[n].timestamp # 0 THEN lines[n].timestamp ELSE now,
                                lines[n].message.model)
             ELSE <<>>)

FirstOf(S) == CHOOSE i \in S : \A k \in S : i <= k

\* The lines that parse to an entry with a working directory, with a slug,
\* and the assistant entries whose message names a model.
CwdLines(lines) == {i \in 1..Len(lines) : lines[i].json = "obj" /\ lines[i].cwd # ""}
SlugLines(lines) == {i \in 1..Len(lines) : lines[i].json = "obj" /\ lines[i].slug # ""}
ModelLines(lines) ==
    {i \in 1..Len(lines) : IsAssistantEntry(lines[i]) /\ lines[i].message.model # ""}

\* C12: within one scan, model, title and working directory each take the
\* first non-empty value in line order (the model among the assistant
\* entries), and no iteration replaces a value an earlier entry has set.
C12_FirstValueKept ==
    [][/\ scanAcc.model # "" => scanAcc'.model = scanAcc.model
       /\ scanAcc.title # "" => scanAcc'.title = scanAcc.title
       /\ scanAcc.cwd # "" => scanAcc'.cwd = scanAcc.cwd
       /\ LET seen == SubSeq(scanLines, 1, scanPos' - 1)
          IN  /\ scanAcc'.cwd = IF CwdLines(seen) = {} THEN ""
                                ELSE seen[FirstOf(CwdLines(seen))].cwd
              /\ scanAcc'.title = IF SlugLines(seen) = {} THEN ""
                                  ELSE seen[FirstOf(SlugLines(seen))].slug
              /\ scanAcc'.model = IF ModelLines(seen) = {} THEN ""
                                  ELSE seen[FirstOf(ModelLines(seen))].message.model]_vars

\* A finished scan in which a later entry has another model, title and
\* working directory than the entries that set them.
C12_Witness ==
    /\ ScanDone
    /\ scanLines = <<UserLine, AssistantU1, AssistantU1Again>>
    /\ scanAcc.cwd = UserLine.cwd /\ AssistantU1Again.cwd \notin {"", UserLine.cwd}
    /\ scanAcc.title = UserLine.slug /\ AssistantU1Again.slug \notin {"", UserLine.slug}
    /\ scanAcc.model = AssistantU1.message.model
    /\ AssistantU1Again.message.model \notin {"", AssistantU1.message.model}

\* The keys of MODEL_PRICING.
PriceKeys == {MODEL_PRICING[i].key : i \in 1..Len(MODEL_PRICING)}

NearKeys(model) ==
    {k \in PriceKeys : Includes(Spell(model), Spell(k)) \/ Includes(Spell(k), Spell(model))}

PriceAt(key, stats) ==
    LET pricing == CHOOSE p \in {MODEL_PRICING[i] : i \in 1..Len(MODEL_PRICING)} : p.key = key
    IN  stats.inputTokens * pricing.input
        + stats.cacheCreationTokens * pricing.cacheWrite
        + stats.cacheReadTokens * pricing.cacheRead
        + stats.outputTokens * pricing.output

\* C14: for a model found in the price table, calculateCost returns (input *
\* input rate + cache-write * cache-write rate + cache-read * cache-read rate
\* + output * output rate) / 1,000,000, which is not negative; for input 100,
\* output 50, no cache tokens and claude-3-5-haiku-20241022 it is 0.00028
\* (28000 in units of 10^-8 dollars).
C14_CostIsSumOfFourProducts ==
    (CostDone /\ costModel \in PriceKeys) =>
        /\ costResult = PriceAt(costModel, costStats)
        /\ costResult >= 0
        /\ (/\ costModel = "claude-3-5-haiku-20241022"
            /\ costStats = [inputTokens |-> 100, cacheCreationTokens |-> 0,
                            cacheReadTokens |-> 0, outputTokens |-> 50])
              => costResult = 28000

\* calculateCost has returned for a key of the table and token counts with
\* cache tokens among them.
C14_Witness ==
    /\ CostDone
    /\ costModel = "claude-3-5-haiku-20241022"
    /\ costStats = [inputTokens |-> 100, cacheCreationTokens |-> 2,
                    cacheReadTokens |-> 1, outputTokens |-> 50]
    /\ costResult = 28208

\* The first key in table order among a non-empty set of keys.
FirstInTable(keys) ==
    MODEL_PRICING[CHOOSE i \in 1..Len(MODEL_PRICING) :
                     /\ MODEL_PRICING[i].key \in keys
                     /\ \A k \in 1..(i - 1) : MODEL_PRICING[k].key \notin keys].key

\* C15: when a key of the table equals the model, that key's prices are used;
\* when none equals it, the prices of the first key in table order that
\* contains the model or is contained in it are used; and, for token counts
\* whose cost at every key is positive, zero is returned only when there is no
\* such key or the model is undefined or empty.
C15_ExactKeyThenFirstNearKey ==
    CostDone =>
        /\ costModel \in PriceKeys => costResult = PriceAt(costModel, costStats)
        /\ (/\ costModel \notin PriceKeys \cup InheritedNames \cup {""}
            /\ NearKeys(costModel) # {})
              => costResult = PriceAt(FirstInTable(NearKeys(costModel)), costStats)
        /\ (costResult = 0 /\ \A k \in PriceKeys : PriceAt(k, costStats) > 0)
              => (costModel = "" \/ NearKeys(costModel) = {})

\* calculateCost has priced a name that is part of three keys with different
\* rates at the rates of the first of them in table order.
C15_Witness ==
    /\ CostDone
    /\ costModel = "claude-3"
    /\ NearKeys(costModel) = {"claude-3-5-sonnet-20241022", "claude-3-opus-20240229",
                              "claude-3-5-haiku-20241022"}
    /\ costStats.inputTokens > 0
    /\ costResult = PriceAt("claude-3-5-sonnet-20241022", costStats)
    /\ costResult # PriceAt("claude-3-opus-20240229", costStats)
    /\ costResult # PriceAt("claude-3-5-haiku-20241022", costStats)

\* C16: within one session, no two distinct message records sent to the
\* backend carry the same message identifier (two entries of the history of
\* requests with the session and identifier of each other are one entry).
C16_MessageIdsUnique ==
    \A r1, r2 \in attempted : (r1.sid = r2.sid /\ r1.id = r2.id) => r1 = r2

CountIn(led) == NumOr0(GetEntry(led, RaceSession).messageCount)

\* The ledger the file holds.
OnDisk(f) == loadSessionState(f).state

\* C18: the ledger file has no lock across processes: every save of a process
\* leaves exactly the ledger the process holds in memory, whose message count
\* is the count the process loaded plus its own increments, whatever another
\* process has saved since; so when two invocations for one session have both
\* loaded the ledger before either saves, the later save overwrites the
\* earlier one and the earlier invocation's update is lost.
C18_LaterSaveOverwrites ==
    [][\A p \in Procs :
          procs'[p].writes = procs[p].writes + 1 =>
             /\ file' = saveSessionState(procs'[p].mem)
             /\ CountIn(OnDisk(file')) = CountIn(procs'[p].base) + procs'[p].incs
             /\ GetEntry(OnDisk(file'), RaceSession).firstPrompt
                   = procs'[p].cur.firstPrompt]_vars

\* Two UserPromptSubmit invocations for the session overlapped; each has
\* incremented the message count and saved the ledger, both have exited, and
\* the file counts one message and holds the first prompt of the later save.
C18_Witness ==
    /\ \A p \in Procs : /\ procs[p].pc = "exited"
                        /\ procs[p].event = "UserPromptSubmit"
                        /\ procs[p].incs = 1
                        /\ procs[p].writes >= 1
    /\ nHooks = 2
    /\ CountIn(OnDisk(file)) = 1

\* The final stats of the SessionEnd that awaits its reply: those of the
\* transcript when the event names one that exists, else those of the entry.
FinalStats ==
    IF hook.tp = "file" THEN parseTranscriptFile(transcripts[hook.sid], RunTime).stats
    ELSE StatsOfEntry(cur)

\* The final stats have a model and a token count that is not zero.
Priceable(stats) ==
    /\ stats.model # ""
    /\ stats.inputTokens + stats.outputTokens + stats.cacheReadTokens
          + stats.cacheCreationTokens > 0

\* C19 (amended): the final session record of a SessionEnd carries the cost the
\* event supplies whenever that is a number other than zero; when the event
\* supplies none, or zero, the cost is calculateCost of the final model and
\* token counts if there is a model and a token count that is not zero, and
\* else what the event supplied.
C19_EndCostSuppliedOrEstimated ==
    (pc = "await_end" /\ hook.event = "SessionEnd") =>
        /\ NumOr0(hook.cost) # 0 => req.costEstimate = hook.cost
        /\ (NumOr0(hook.cost) = 0 /\ Priceable(FinalStats))
              => req.costEstimate = calculateCost(FinalStats.model, FinalStats)
        /\ (NumOr0(hook.cost) = 0 /\ ~Priceable(FinalStats))
              => req.costEstimate = hook.cost

\* A SessionEnd whose event supplies a cost of zero awaits the reply to a
\* final record that carries the estimate for the transcript.
C19_Witness ==
    /\ pc = "await_end"
    /\ hook.cost = 0
    /\ hook.tp = "file"
    /\ Priceable(FinalStats)
    /\ req.costEstimate = calculateCost(FinalStats.model, FinalStats)
    /\ req.costEstimate > 0

\* C19 as stated: the final record carries the cost supplied by the event
\* whenever the event supplies one, and else the estimator's result.
C19_EndCostIsSuppliedCost ==
    (pc = "await_end" /\ hook.event = "SessionEnd") =>
        /\ hook.cost # Undef => req.costEstimate = hook.cost
        /\ (hook.cost = Undef /\ Priceable(FinalStats))
              => req.costEstimate = calculateCost(FinalStats.model, FinalStats)

\* C20: when stdin reaches its end and every HTTP request eventually
\* completes, every hook invocation eventually exits; and it never exits
\* while a request it issued is pending: an invocation that has exited has had
\* an answer to every request it issued, and one that awaits has exactly one
\* request pending.
C20_ExitsWithNoRequestPending ==
    /\ [](pc = "exited" => hook.issued = hook.answered)
    /\ [](pc \in Awaits => (hook.issued = hook.answered + 1 /\ req # NoReq))
    /\ [](pc \in Awaits => <>(pc = "exited"))

\* An invocation has exited after two requests, each of them answered.
C20_Witness ==
    /\ pc = "exited"
    /\ hook.issued >= 2
    /\ hook.answered = hook.issued
    /\ ~hook.failed

\* The counters the ledger file holds for a session.
Counters(f, sid) ==
    IF HasEntry(f, sid)
    THEN LET e == f.data[sid]
         IN  <<e.tokenUsage, e.cacheCreationTokens, e.cacheReadTokens, e.messageCount,
               e.toolCallCount, e.costEstimate>>
    ELSE <<>>

\* C21: a Stop event delivered a second time, with the transcript unchanged,
\* leaves the ledger counters of its session (token totals, cache-token
\* counts, message count, tool-call count, cost estimate) as the first
\* delivery left them: no step of the second process changes them in the file.
C21_RepeatedStopKeepsCounters ==
    [][(hook'.event = "Stop" /\ hook'.repeat) =>
          Counters(file', hook'.sid) = Counters(file, hook'.sid)]_vars

C23_ToolCallForwardedUnlessFalse ==
    (hook.event = "PostToolUse" /\ hook.input = "json" /\ pc \in {"await_tool", "exited"}) =>
        (hook.issued = 1 <=> ToolCallsEnabled(config))

\* What a PostToolUse event holds as the tool's arguments, output and error.
RawToolContent ==
    UNION {{d.tool_input, d.output, d.error} : d \in ToolData} \ {""}

\* No message sent has the thinking trace of a transcript as its content.
NoThinkingSent == \A r \in attempted : r.content # ThinkingText

\* C24: thinking traces and raw content are kept out of what is synced: no
\* message sent has thinking content of the transcript as its content, and
\* the payload of a PostToolUse message holds neither the arguments of the
\* tool nor the output or error of its result as the event gave them.
C24_NoThinkingNoRawToolContent ==
    /\ NoThinkingSent
    /\ req.endpoint = "/sync/message" =>
           \A i \in 1..Len(req.parts) : req.parts[i].content \notin RawToolContent

\* The trimmed URL holds convex.cloud or convex.site at some place.
NamesConvexHost(u) ==
    \E i \in 1..Len(u) :
        \/ (i + 11 <= Len(u) /\ SubSeq(u, i, i + 11) = ConvexCloud)
        \/ (i + 10 <= Len(u) /\ SubSeq(u, i, i + 10) = ConvexSite)

\* The trimmed key begins with the four characters osk_.
BeginsWithOsk(k) ==
    Len(k) >= 4 /\ k[1] = "o" /\ k[2] = "s" /\ k[3] = "k" /\ k[4] = "_"

\* All checks of login pass for the answers typed and the connection tested.
LoginChecksPass ==
    /\ NamesConvexHost(Trim(cmd.typedUrl))
    /\ BeginsWithOsk(Trim(cmd.typedKey))
    /\ cmd.connected = "ok"

\* C25: login writes the credentials file only when the URL is given and
\* contains convex.cloud or convex.site, the API key is given and starts with
\* osk_, and the connection test succeeded; when a check failed it has exited
\* with a nonzero status and the stored configuration is as it was.
C25_LoginWritesOnlyCheckedCredentials ==
    /\ cmd.saved => LoginChecksPass
    /\ (cmd.pc = "exited" /\ ~LoginChecksPass) =>
           (cmd.exit # 0 /\ cmd.stored = cmd.stored0 /\ ~cmd.saved)

\* login has exited after the connection test failed for a URL and a key
\* that pass their checks, credentials of an earlier login being stored.
C25_Witness ==
    /\ cmd.pc = "exited"
    /\ cmd.connected = "not_ok"
    /\ cmd.key # <<>>
    /\ cmd.stored0 = OldCreds
    /\ cmd.exit = 1

\* The settings file holds a hooks configuration: its text has the key hooks
\* with a value other than null.
HoldsHooks(f) ==
    /\ f.kind \in {"json", "unparsable"}
    /\ "hooks" \in DOMAIN f.data
    /\ ~f.data["hooks"].null

\* C26: setup leaves settings.json as it was, and exits with a nonzero status,
\* when the file holds a hooks configuration and --force is not given; when it
\* has written, every top-level key of the settings that were there, other
\* than hooks, is in the file with its value, and hooks is the five commands.
C26_SetupKeepsOtherKeys ==
    /\ (cmd.pc = "exited" /\ HoldsHooks(cmd.settings0) /\ ~cmd.force) =>
           (cmd.settings = cmd.settings0 /\ cmd.exit # 0)
    /\ (cmd.pc = "exited" /\ cmd.written) =>
           /\ cmd.settings.data["hooks"] = CLAUDE_HOOKS_CONFIG
           /\ \A k \in DOMAIN cmd.settings0.data \ {"hooks"} :
                 /\ k \in DOMAIN cmd.settings.data
                 /\ cmd.settings.data[k] = cmd.settings0.data[k]

\* The process that has exited was a Stop of session sid that scanned the
\* transcript as it is now, sent its messages and saved the ledger.
StopJustSaved(sid) ==
    /\ pc = "exited"
    /\ hook.event = "Stop" /\ hook.sid = sid /\ hook.tp = "file"
    /\ ~hook.failed /\ hook.writes = 1
    /\ lastStop[sid] = transcripts[sid]

\* C27: a SessionEnd that follows a Stop over the same unchanged transcript
\* reports the same input total and the same cost whether it reads the
\* transcript again or takes the values the Stop stored in the ledger: the
\* input total is input + cache-creation + cache-read tokens of the
\* transcript, each counted once, and the cost is that of these counts.
C27_EndTotalsSameFromLedger ==
    [][(StopJustSaved(hook'.sid) /\ hook'.event = "SessionEnd" /\ pc' = "await_end") =>
          LET stats == parseTranscriptFile(transcripts[hook'.sid], StartTime).stats
          IN  /\ req'.tokenUsage.input =
                     stats.inputTokens + stats.cacheCreationTokens + stats.cacheReadTokens
              /\ req'.costEstimate = EndCost(hook'.cost, stats)]_vars

\* C28: every identifier the ledger file has held in a session's set of
\* synced identifiers was carried, as its identifier, by a message request of
\* that session which was answered with success; none is persisted whose
\* transmission failed or was never attempted.
C28_PersistedIdsWereDelivered ==
    \A su \in recorded :
        \E d \in delivered : d.sid = su[1] /\ d.id = GivenId(su[2])

\* The ledger file holds u1 as synced for s1 after a Stop whose request for u1
\* failed and a later Stop that sent it again.
C28_Witness ==
    /\ "u1" \in SyncedIn(file, "s1")
    /\ \E r \in attempted : r.id = GivenId("u1") /\ r.nth = 2
    /\ \A d \in delivered : d.id = GivenId("u1") => d.nth = 2

\* C29: across the session records SessionStart, Stop and SessionEnd send for
\* a session, the first model and the first title reported win: a record
\* issued after one that reported a model (a title) reports none or the same.
C29_FirstReportedValueWins ==
    [][(pc' \in {"await_start", "await_stopsession", "await_end"} /\ pc' # pc) =>
          LET was == reported[req'.sid]
          IN  /\ (was.model # "" /\ req'.model # "") => req'.model = was.model
              /\ (was.title # "" /\ req'.title # "") => req'.title = was.title]_vars

\* C30: when the request for an assistant message fails during a Stop
\* invocation, the process exits with code 0 at once: the ledger file is not
\* written (it still holds what the invocation read at its start, and the
\* invocation has saved nothing), and no further request, so no session
\* summary, is issued.
C30_FailedStopMessageLeavesLedger ==
    [][(pc = "await_stopmsg" /\ hook'.failed) =>
          /\ pc' = "exited" /\ exitCode' = 0
          /\ file' = file
          /\ hook'.writes = 0
          /\ loadSessionState(file').state = mem
          /\ attempted' = attempted
          /\ hook'.issued = hook.issued
          /\ req.endpoint = "/sync/message" /\ req'.endpoint # "/sync/session"]_vars

\* A Stop has exited with code 0 on the failure of its second message request:
\* the first message was delivered, and the ledger file holds no synced
\* identifier and no count for the session.
C30_Witness ==
    /\ pc = "exited" /\ exitCode = 0
    /\ hook.event = "Stop" /\ hook.failed /\ hook.writes = 0 /\ hook.issued = 2
    /\ \E d \in delivered : d.id = GivenId("u1")
    /\ SyncedIn(file, "s1") = {}

\* The ledger file's entries for the sessions other than sid.
OtherEntries(f, sid) == [s \in DOMAIN f.data \ {sid} |-> f.data[s]]

\* C31: no step of a hook invocation for a session changes the ledger file's
\* entries for the other sessions, whatever the event; a PostToolUse
\* invocation and an invocation with an unknown event name leave the whole
\* file as it is.
C31_OtherSessionsEntriesKept ==
    [][/\ OtherEntries(file', hook'.sid) = OtherEntries(file, hook'.sid)
       /\ hook'.event \in {"PostToolUse", UnknownEvent} => file' = file]_vars

\* A SessionEnd of s1 has removed the entry of s1, which earlier invocations
\* had written, and the file still holds the entry of the other session.
C31_Witness ==
    /\ pc = "exited" /\ hook.event = "SessionEnd" /\ hook.sid = "s1" /\ hook.writes = 1
    /\ "s1" \in ended
    /\ DOMAIN file.data = {OtherSession}
    /\ file.data[OtherSession] = SerializeEntry(StoppedEntry)

\* The first prompt the ledger file holds for a session ("" when it holds none).
FirstPromptIn(f, sid) ==
    IF f.kind = "json" /\ sid \in DOMAIN f.data THEN f.data[sid].firstPrompt ELSE ""

\* C32: once the ledger file holds a first prompt for a session, no step of
\* a hook event other than the session's SessionEnd changes it, and
\* UserPromptSubmit issues the title record only when none was issued for the
\* session since its last SessionEnd.
C32_FirstPromptSetOnceTitleSentOnce ==
    [][/\ \A s \in Sessions :
            (FirstPromptIn(file, s) # "" /\ ~(hook'.event = "SessionEnd" /\ hook'.sid = s))
                => FirstPromptIn(file', s) = FirstPromptIn(file, s)
       /\ (pc' = "await_title" /\ pc # "await_title") => ~reported[hook'.sid].titled]_vars

\* The identifiers of the assistant messages a Stop finds in a transcript.
AssistantUuids(lines) ==
    {m.uuid : m \in Elems(parseTranscriptFile(lines, 0).assistantMessages)} \ {""}

\* C33: the step of a Stop invocation that issues the session summary is
\* the one that writes the ledger, and it comes when no assistant message is
\* left to send and none is in flight: the file then holds as synced every
\* identifier of the transcript's assistant messages, each carried by a
\* delivered request.  Whatever the reply to the summary, the file is left as
\* written and keeps these identifiers.
C33_StopSavesBeforeSummary ==
    [][/\ (pc' = "await_stopsession" /\ pc # "await_stopsession") =>
             /\ hook'.writes = 1
             /\ queue' = <<>>
             /\ hook'.issued = hook'.answered + 1
             /\ req'.endpoint = "/sync/session"
             /\ \A u \in AssistantUuids(TranscriptAt(hook'.sid, hook'.tp)) :
                    /\ u \in SyncedIn(file', hook'.sid)
                    /\ \E d \in delivered' : d.sid = hook'.sid /\ d.id = GivenId(u)
       /\ pc = "await_stopsession" =>
             /\ file' = file
             /\ pc' = "exited" /\ exitCode' = 0
             /\ \A u \in AssistantUuids(TranscriptAt(hook.sid, hook.tp)) :
                    u \in SyncedIn(file', hook.sid)]_vars

\* A Stop has exited on the failure of its summary request, after it sent the
\* message u1 and wrote the ledger: the file holds u1 as synced.
C33_Witness ==
    /\ pc = "exited"
    /\ hook.event = "Stop" /\ hook.failed /\ hook.writes = 1 /\ hook.issued = 2
    /\ SyncedIn(file, "s1") = {"u1"}
    /\ \E d \in delivered : d.id = GivenId("u1")

==========================================================================
